---- MODULE Spec2Model ----
(***************************************************************************)
(* Verification model of the manifesto IAM core (pkg/iam): one-time codes, *)
(* the OAuth state store and invitations.                                   *)
(*                                                                          *)
(* Time is a discrete clock `now`; time.Now() reads it.  Durations of the   *)
(* configuration are scaled to clock units.  Each subsystem has its own     *)
(* specification (SpecOTP, SpecSM, SpecSMC, SpecInv) over the shared state. *)
(***************************************************************************)
EXTENDS Integers, Sequences, FiniteSets, TLC

\* ---------------------------------------------------------------- bounds
MaxTime == 3            \* the clock runs 0..MaxTime
MaxOTPs == 2            \* rows of table otps

\* ------------------------------------------------- configuration (scaled)
CfgMaxAttempts == 0..2  \* the values of config.OTPConfig.MaxAttempts explored
RateLimitWindow == 1    \* config.OTPConfig.RateLimitWindow, in clock units
ExpirationTime == 2     \* config.OTPConfig.ExpirationTime, in clock units

\* the literal ceiling of OTP.Verify
HardAttemptCap == 5

Procs == {"p1", "p2"}   \* concurrent request handlers
Contacts == {"a@b.com"}
Codes == {"000012", "000034"}
Purposes == {"VERIFICATION"}

VARIABLES
    now,             \* the clock
    cfgMaxAttempts,  \* config.OTPConfig.MaxAttempts
    otps,            \* table otps: sequence of rows, the id is the index
    successes,       \* per row: VerifyOTP calls that returned the row without error
    pc,              \* per handler: position in GenerateOTP / VerifyOTP
    call,            \* per handler: arguments and locals of the call in flight
    last,            \* the call that returned last, with its result
    smTTL,           \* config.StateManagerConfig.TTL, in clock units
    memStates,       \* InMemoryStateManager.states
    redisKeys,       \* the keys oauth_state:<state> of the Redis server
    memRes,          \* what the last call returned on the in-memory backend
    redisRes,        \* what the same call returned on the Redis backend
    smLast,          \* the last call, and what was stored for its token before it
    smFresh,         \* per token: what StoreState stored last and whether it was read since
    smMu,            \* InMemoryStateManager.mu: the handler holding it, or "free"
    smPc,            \* per handler: position in GetStateData
    smCall,          \* per handler: backend, token and reply of the call in flight
    smGot,           \* per backend and token: payloads handed out since the last store
    smcLast,         \* the concurrent GetStateData call that returned last
    invs,            \* table invitations: sequence of rows, the id is the index
    invAccepts,      \* per invitation: Accept() calls that succeeded
    invLast,         \* the last invitation operation, with its result
    tenantRow,       \* the row of the tenant in table tenants
    users,           \* table users: the rows of the tenant
    nextUid,         \* the next user id to hand out
    nReq,            \* operations of the registration services taken so far
    rpc,             \* per handler: position in a registration request
    rcall,           \* per handler: arguments and locals of the request in flight
    rLast,           \* the registration request that returned last, with its result
    apiKeys,         \* table api_keys
    authLast,        \* the request the authenticator handled last, with what it ran
    scopeIn,         \* the scope list and the required scope of a HasScope call
    scopeOut,        \* what User.HasScope and APIKey.HasScope returned for them
    rtoks,           \* the refresh_tokens table, in insertion order
    sessions,        \* the user_sessions table, in insertion order
    secretKey,       \* JWTService.secretKey of the running process
    loggedOut,       \* the rows that existed for a principal when a Logout reported success
    tokLast,         \* the refresh request just answered, and its outcome
    jwtIn,           \* the principal, tenant and scopes handed to GenerateAccessToken
    jwtTok,          \* the access token in the caller's hands
    jwtRes,          \* the answer to the last presentation of jwtTok
    reaperPc,             \* where CleanupService.Start is: idle, pass, select or stopped
    rstep,           \* the cleanup step a running pass is at
    tickPending,     \* a tick waits in ticker.C
    cancelled,       \* ctx.Done() is closed
    rstat,           \* counts of passes begun, ticks taken, passes and steps completed, and what went wrong
    pwlUsers,        \* the users table as the passwordless handlers read it
    pwlActive,       \* the tenants that exist and are active
    pwlOtps,         \* the OTPs created for the handlers, each with the tenant of its request
    pwlSent,         \* the number of OTP notifications sent
    pwlOut,          \* the last passwordless lookup request and its answer
    keyGen,          \* the API key configuration and the last key generated under it
    codeGen          \* the last GenerateOTPCode call and what it returned

otpVars == <<cfgMaxAttempts, otps, successes, pc, call, last>>
smVars == <<smTTL, memStates, redisKeys, memRes, redisRes, smLast, smFresh>>
smcVars == <<smMu, smPc, smCall, smGot, smcLast>>
invVars == <<invs, invAccepts, invLast>>
regVars == <<tenantRow, users, nextUid, nReq, rpc, rcall, rLast>>
authVars == <<apiKeys, authLast>>
scopeVars == <<scopeIn, scopeOut>>
tokVars == <<rtoks, sessions, secretKey, loggedOut, tokLast>>
jwtVars == <<jwtIn, jwtTok, jwtRes>>
reapVars == <<reaperPc, rstep, tickPending, cancelled, rstat>>
pwlVars == <<pwlUsers, pwlActive, pwlOtps, pwlSent, pwlOut>>
keyVars == <<keyGen>>
codeVars == <<codeGen>>
vars == <<now, otpVars, smVars, smcVars, invVars, regVars, authVars, scopeVars, tokVars, jwtVars, reapVars, pwlVars, keyVars, codeVars>>

\* what the operations of one subsystem leave alone
otherThanOTP == <<smVars, smcVars, invVars, regVars, authVars, scopeVars, tokVars, jwtVars, reapVars, pwlVars, keyVars, codeVars>>
otherThanSM == <<otpVars, smcVars, invVars, regVars, authVars, scopeVars, tokVars, jwtVars, reapVars, pwlVars, keyVars, codeVars>>
otherThanSMC == <<otpVars, memRes, redisRes, smLast, smFresh, invVars, regVars, authVars, scopeVars, tokVars, jwtVars, reapVars, pwlVars, keyVars, codeVars>>
otherThanInv == <<otpVars, smVars, smcVars, regVars, authVars, scopeVars, tokVars, jwtVars, reapVars, pwlVars, keyVars, codeVars>>
otherThanReg == <<otpVars, smVars, smcVars, invAccepts, invLast, authVars, scopeVars, tokVars, jwtVars, reapVars, pwlVars, keyVars, codeVars>>
otherThanAuth == <<otpVars, smVars, smcVars, invVars, regVars, scopeVars, tokVars, jwtVars, reapVars, pwlVars, keyVars, codeVars>>
otherThanScope == <<otpVars, smVars, smcVars, invVars, regVars, authVars, tokVars, jwtVars, reapVars, pwlVars, keyVars, codeVars>>
otherThanTok == <<otpVars, smVars, smcVars, invVars, regVars, authVars, scopeVars, jwtVars, reapVars, pwlVars, keyVars, codeVars>>
otherThanJwt == <<otpVars, smVars, smcVars, invVars, regVars, authVars, scopeVars, tokVars, reapVars, pwlVars, keyVars, codeVars>>
otherThanReap == <<otpVars, smVars, smcVars, invVars, regVars, authVars, scopeVars, tokVars, jwtVars, pwlVars, keyVars, codeVars>>
otherThanPwl == <<otpVars, smVars, smcVars, invVars, regVars, authVars, scopeVars, tokVars, jwtVars, reapVars, keyVars, codeVars>>
otherThanKey == <<otpVars, smVars, smcVars, invVars, regVars, authVars, scopeVars, tokVars, jwtVars, reapVars, pwlVars, codeVars>>
otherThanCode == <<otpVars, smVars, smcVars, invVars, regVars, authVars, scopeVars, tokVars, jwtVars, reapVars, pwlVars, keyVars>>

\* ------------------------------------------------------------ OTP entity
NoOTP == [contact |-> "", code |-> "", purpose |-> "", expiresAt |-> 0,
          verified |-> FALSE, attempts |-> 0, maxAttempts |-> 0, createdAt |-> 0]

\* a call: its arguments, the row it read (id, 0 for none), the values it will
\* write, its result, and what held when it read (kept for the properties)
NoCall == [op |-> "none", contact |-> "", code |-> "", purpose |-> "", id |-> 0,
           entAttempts |-> 0, entVerified |-> FALSE, res |-> "",
           seenVerified |-> FALSE, seenAtCeiling |-> FALSE, seenExpired |-> FALSE,
           pre |-> FALSE, prevVerified |-> FALSE, tgt |-> {},
           wrote |-> FALSE, sent |-> FALSE]

\* OTP.IsValid
IsValid(o, t) == t < o.expiresAt /\ ~o.verified /\ o.attempts < o.maxAttempts

\* OTP.IsExpired
IsExpired(o, t) == t > o.expiresAt

\* a mutant: the row's own ceiling is ignored for the literal one
AttemptsExhausted_Literal(o) == o.attempts >= HardAttemptCap

\* the guard `Attempts >= MaxAttempts` of VerifyOTP and of OTP.Verify
AttemptsExhausted(o) == o.attempts >= o.maxAttempts

\* OTP.Verify: the error, or "nil" and the entity with VerifiedAt set
OTP_Verify(o, t) ==
    IF AttemptsExhausted(o) THEN [err |-> "too_many_attempts", o |-> o]
    ELSE IF IsExpired(o, t) THEN [err |-> "expired", o |-> o]
    ELSE IF o.attempts >= HardAttemptCap THEN [err |-> "too_many_attempts", o |-> o]
    ELSE [err |-> "nil", o |-> [o EXCEPT !.verified = TRUE]]

\* OTP.IncrementAttempts
IncrementAttempts(o) == [o EXCEPT !.attempts = @ + 1]

\* ------------------------------------------------------- OTP repository
\* ORDER BY created_at DESC LIMIT 1 over the rows S.  created_at has a finer
\* resolution than the clock: of two rows of one clock value the one inserted
\* later (the higher id) is the newer
LatestIds(S) == {i \in S : \A j \in S :
                    \/ otps[j].createdAt < otps[i].createdAt
                    \/ otps[j].createdAt = otps[i].createdAt /\ j <= i}

\* the rows matched by GetByContactAndCode
ByContactAndCode(contact, code) ==
    {i \in DOMAIN otps : otps[i].contact = contact /\ otps[i].code = code}

\* the rows matched by GetLatestByContact
ByContactAndPurpose(contact, purpose) ==
    {i \in DOMAIN otps : otps[i].contact = contact /\ otps[i].purpose = purpose}

\* ---------------------------------------------------------- OTP service
\* a mutant: the VerifiedAt check is missing
VerifyOTPDecide_NoUsedCheck(e, code, t) ==
    IF IsExpired(e, t) THEN [res |-> "expired", ent |-> e, update |-> FALSE]
    ELSE IF AttemptsExhausted(e) THEN [res |-> "too_many_attempts", ent |-> e, update |-> FALSE]
    ELSE LET e1 == IncrementAttempts(e) IN
         IF e1.code = code
         THEN LET v == OTP_Verify(e1, t) IN
              IF v.err # "nil" THEN [res |-> v.err, ent |-> e1, update |-> FALSE]
              ELSE [res |-> "ok", ent |-> v.o, update |-> TRUE]
         ELSE [res |-> "invalid_otp", ent |-> e1, update |-> TRUE]

\* VerifyOTP from the row e it looked up to its repo.Update: the result,
\* the entity as changed, and whether Update is reached
VerifyOTPDecide(e, code, t) ==
    IF IsExpired(e, t) THEN [res |-> "expired", ent |-> e, update |-> FALSE]
    ELSE IF AttemptsExhausted(e) THEN [res |-> "too_many_attempts", ent |-> e, update |-> FALSE]
    ELSE IF e.verified THEN [res |-> "already_used", ent |-> e, update |-> FALSE]
    ELSE LET e1 == IncrementAttempts(e) IN
         IF e1.code = code
         THEN LET v == OTP_Verify(e1, t) IN
              IF v.err # "nil" THEN [res |-> v.err, ent |-> e1, update |-> FALSE]
              ELSE [res |-> "ok", ent |-> v.o, update |-> TRUE]
         ELSE [res |-> "invalid_otp", ent |-> e1, update |-> TRUE]

\* the rows a wrong code is an attempt on: issued to the contact, still
\* valid, with another code; each with its attempt counter at that time
WrongCodeTargets(contact, code, t) ==
    {<<i, otps[i].attempts>> : i \in {j \in DOMAIN otps :
        otps[j].contact = contact /\ otps[j].code # code /\ IsValid(otps[j], t)}}

\* VerifyOTP, first round trip: GetByContactAndCode and every check up to
\* the Update; the call returns here unless it has something to write
VerifyLookup(p) ==
    /\ pc[p] = "idle"
    /\ \E contact \in Contacts, code \in Codes :
        LET cand == ByContactAndCode(contact, code)
            base == [NoCall EXCEPT !.op = "verify", !.contact = contact, !.code = code,
                        !.prevVerified = \E i \in cand : otps[i].verified,
                        !.tgt = WrongCodeTargets(contact, code, now)]
        IN  IF cand = {}
            THEN /\ last' = [base EXCEPT !.res = "invalid_otp"]
                 /\ UNCHANGED <<pc, call>>
            ELSE \E i \in LatestIds(cand) :
                    LET d == VerifyOTPDecide(otps[i], code, now)
                        c == [base EXCEPT !.id = i, !.res = d.res,
                                  !.seenVerified = otps[i].verified,
                                  !.seenAtCeiling = (otps[i].attempts = otps[i].maxAttempts),
                                  !.seenExpired = IsExpired(otps[i], now)]
                    IN  IF d.update
                        THEN /\ call' = [call EXCEPT ![p] =
                                    [c EXCEPT !.entAttempts = d.ent.attempts,
                                              !.entVerified = d.ent.verified]]
                             /\ pc' = [pc EXCEPT ![p] = "v_update"]
                             /\ UNCHANGED last
                        ELSE /\ last' = c
                             /\ UNCHANGED <<pc, call>>
    /\ UNCHANGED <<now, cfgMaxAttempts, otps, successes, otherThanOTP>>

\* VerifyOTP, second round trip: repo.Update writes verified_at and attempts
\* of the row by id, then the call returns
VerifyUpdate(p) ==
    /\ pc[p] = "v_update"
    /\ LET c == call[p] IN
       /\ otps' = [otps EXCEPT ![c.id].verified = c.entVerified,
                               ![c.id].attempts = c.entAttempts]
       /\ successes' = [successes EXCEPT ![c.id] = IF c.res = "ok" THEN @ + 1 ELSE @]
       /\ last' = [c EXCEPT !.wrote = TRUE, !.entAttempts = 0, !.entVerified = FALSE]
    /\ pc' = [pc EXCEPT ![p] = "idle"]
    /\ call' = [call EXCEPT ![p] = NoCall]
    /\ UNCHANGED <<now, cfgMaxAttempts, otherThanOTP>>

\* some row of (contact, purpose) is valid and younger than the window
ValidCodeInWindow(contact, purpose, t) ==
    \E i \in ByContactAndPurpose(contact, purpose) :
        IsValid(otps[i], t) /\ t - otps[i].createdAt < RateLimitWindow

\* the rate-limit condition of GenerateOTP on the latest row
RateLimited(existing, t) ==
    IsValid(existing, t) /\ t - existing.createdAt < RateLimitWindow

\* GenerateOTP, first round trip: GetLatestByContact and the rate limit
GenCheck(p) ==
    /\ pc[p] = "idle"
    /\ \E contact \in Contacts, purpose \in Purposes :
        LET cand == ByContactAndPurpose(contact, purpose)
            base == [NoCall EXCEPT !.op = "generate", !.contact = contact,
                        !.purpose = purpose,
                        !.pre = ValidCodeInWindow(contact, purpose, now)]
        IN  \/ /\ cand = {}
               /\ call' = [call EXCEPT ![p] = base]
               /\ pc' = [pc EXCEPT ![p] = "g_create"]
               /\ UNCHANGED last
            \/ \E i \in LatestIds(cand) :
                    IF RateLimited(otps[i], now)
                    THEN /\ last' = [base EXCEPT !.res = "too_many_requests"]
                         /\ UNCHANGED <<pc, call>>
                    ELSE /\ call' = [call EXCEPT ![p] = base]
                         /\ pc' = [pc EXCEPT ![p] = "g_create"]
                         /\ UNCHANGED last
    /\ UNCHANGED <<now, cfgMaxAttempts, otps, successes, otherThanOTP>>

\* the row GenerateOTP inserts
NewOTP(contact, purpose, code, t) ==
    [contact |-> contact, code |-> code, purpose |-> purpose,
     expiresAt |-> t + ExpirationTime, verified |-> FALSE, attempts |-> 0,
     maxAttempts |-> cfgMaxAttempts, createdAt |-> t]

\* a mutant: the insert re-checks the rate limit in the same statement
GenCreate_Atomic(p) ==
    /\ pc[p] = "g_create"
    /\ Len(otps) < MaxOTPs
    /\ LET c == call[p] IN
       IF ValidCodeInWindow(c.contact, c.purpose, now)
       THEN /\ last' = [c EXCEPT !.res = "too_many_requests"]
            /\ UNCHANGED <<otps, successes>>
       ELSE \E code \in Codes :
            /\ otps' = Append(otps, NewOTP(c.contact, c.purpose, code, now))
            /\ successes' = Append(successes, 0)
            /\ last' = [c EXCEPT !.res = "ok", !.code = code, !.wrote = TRUE, !.sent = TRUE]
    /\ pc' = [pc EXCEPT ![p] = "idle"]
    /\ call' = [call EXCEPT ![p] = NoCall]
    /\ UNCHANGED <<now, cfgMaxAttempts, otherThanOTP>>

\* GenerateOTP, second part: GenerateOTPCode, repo.Create, then SendOTP,
\* which delivers or fails; then the call returns
GenCreate(p) ==
    /\ pc[p] = "g_create"
    /\ Len(otps) < MaxOTPs
    /\ LET c == call[p] IN
       \E code \in Codes, delivered \in BOOLEAN :
        /\ otps' = Append(otps, NewOTP(c.contact, c.purpose, code, now))
        /\ successes' = Append(successes, 0)
        /\ last' = [c EXCEPT !.res = IF delivered THEN "ok" ELSE "send_failed",
                             !.code = code, !.wrote = TRUE, !.sent = delivered]
    /\ pc' = [pc EXCEPT ![p] = "idle"]
    /\ call' = [call EXCEPT ![p] = NoCall]
    /\ UNCHANGED <<now, cfgMaxAttempts, otherThanOTP>>

\* time passes
Tick ==
    /\ now < MaxTime
    /\ now' = now + 1
    /\ UNCHANGED <<otpVars, smVars, smcVars, invVars, regVars, authVars, scopeVars, tokVars, jwtVars, reapVars, pwlVars, keyVars, codeVars>>

\* ================================================== OAuth state store
Tokens == {"s1", "s2"}

\* a payload is a Go map[string]any: a set of <<key, dynamic type, value>>.
\* InitiateLogin stores the provider (of type iam.OAuthProvider) and, when the
\* request carries one, the invitation token (a string)
Payloads ==
    { {<<"provider", "iam.OAuthProvider", "GOOGLE">>},
      {<<"provider", "iam.OAuthProvider", "GOOGLE">>,
       <<"invitation_token", "string", "inv-1">>},
      {<<"provider", "iam.OAuthProvider", "MICROSOFT">>} }

\* the values of config.StateManagerConfig.TTL explored, in clock units
StateTTLs == 0..2

\* json.Marshal of a payload: a JSON object, every value a JSON string
JsonMarshal(data) == {<<e[1], e[3]>> : e \in data}

\* json.Unmarshal into map[string]any: a JSON string becomes a Go string
JsonUnmarshal(json) == {<<e[1], "string", e[2]>> : e \in json}

\* the keys and values of a payload, whatever their Go types
PayloadContent(data) == {<<e[1], e[3]>> : e \in data}

\* ------------------------------------------------ in-memory backend
NoEntry == [present |-> FALSE, data |-> {}, expiresAt |-> 0]

\* InMemoryStateManager.StoreState
MemStoreState(states, s, data, ttl, t) ==
    [states EXCEPT ![s] = [present |-> TRUE, data |-> data, expiresAt |-> t + ttl]]

\* InMemoryStateManager.ValidateState
MemValidateState(states, s, t) ==
    IF ~states[s].present THEN FALSE ELSE t < states[s].expiresAt

\* a mutant: the entry is returned and left in the map
MemGetStateData_NoDelete(states, s, t) ==
    IF ~states[s].present
    THEN [states |-> states, err |-> "invalid_state", data |-> {}]
    ELSE IF t > states[s].expiresAt
    THEN [states |-> [states EXCEPT ![s] = NoEntry], err |-> "invalid_state", data |-> {}]
    ELSE [states |-> states, err |-> "nil", data |-> states[s].data]

\* InMemoryStateManager.GetStateData: the map afterwards and what is returned
MemGetStateData(states, s, t) ==
    IF ~states[s].present
    THEN [states |-> states, err |-> "invalid_state", data |-> {}]
    ELSE IF t > states[s].expiresAt
    THEN [states |-> [states EXCEPT ![s] = NoEntry], err |-> "invalid_state", data |-> {}]
    ELSE [states |-> [states EXCEPT ![s] = NoEntry], err |-> "nil",
          data |-> states[s].data]

\* ------------------------------------------------------ Redis backend
\* the server keeps a key until the clock is past its expiry; a key set with
\* expiration 0 has no expiry
NoKey == [present |-> FALSE, val |-> {}, expires |-> FALSE, expireAt |-> 0]

RedisLive(keys, k, t) ==
    keys[k].present /\ (~keys[k].expires \/ t <= keys[k].expireAt)

\* client.Set(ctx, key, value, ttl)
RedisSet(keys, k, val, ttl, t) ==
    [keys EXCEPT ![k] = [present |-> TRUE, val |-> val,
                         expires |-> (ttl > 0), expireAt |-> t + ttl]]

\* client.Exists(ctx, key)
RedisExists(keys, k, t) == IF RedisLive(keys, k, t) THEN 1 ELSE 0

\* a mutant: a GET, the key is left for a later DEL
RedisGetDel_GetOnly(keys, k, t) ==
    IF RedisLive(keys, k, t)
    THEN [keys |-> keys, isNil |-> FALSE, val |-> keys[k].val]
    ELSE [keys |-> [keys EXCEPT ![k] = NoKey], isNil |-> TRUE, val |-> {}]

\* client.GetDel(ctx, key): one atomic command of the server
RedisGetDel(keys, k, t) ==
    IF RedisLive(keys, k, t)
    THEN [keys |-> [keys EXCEPT ![k] = NoKey], isNil |-> FALSE, val |-> keys[k].val]
    ELSE [keys |-> [keys EXCEPT ![k] = NoKey], isNil |-> TRUE, val |-> {}]

\* RedisStateManager.StoreState
RedisStoreState(keys, s, data, ttl, t) == RedisSet(keys, s, JsonMarshal(data), ttl, t)

\* RedisStateManager.ValidateState
RedisValidateState(keys, s, t) == RedisExists(keys, s, t) = 1

\* RedisStateManager.GetStateData, from the reply of GetDel on
RedisReplyToResult(r) ==
    IF r.isNil THEN [err |-> "invalid_state", data |-> {}]
    ELSE [err |-> "nil", data |-> JsonUnmarshal(r.val)]

\* RedisStateManager.GetStateData: the keys afterwards and what is returned
RedisGetStateData(keys, s, t) ==
    LET r == RedisGetDel(keys, s, t)
        res == RedisReplyToResult(r)
    IN  [keys |-> r.keys, err |-> res.err, data |-> res.data]

\* --------------------------- one caller, the same calls on both backends
NoRes == [op |-> "none", err |-> "nil", valid |-> FALSE, data |-> {}]
NoSMLast == [op |-> "none", state |-> "", first |-> FALSE, stored |-> {}, age |-> 0]

NoFresh == [fresh |-> FALSE, got |-> FALSE, data |-> {}, at |-> 0]

SMStoreState(s, data) ==
    /\ memStates' = MemStoreState(memStates, s, data, smTTL, now)
    /\ redisKeys' = RedisStoreState(redisKeys, s, data, smTTL, now)
    /\ memRes' = [NoRes EXCEPT !.op = "StoreState"]
    /\ redisRes' = [NoRes EXCEPT !.op = "StoreState"]
    /\ smLast' = [NoSMLast EXCEPT !.op = "StoreState", !.state = s]
    /\ smFresh' = [smFresh EXCEPT ![s] = [fresh |-> TRUE, got |-> FALSE,
                                          data |-> data, at |-> now]]
    /\ UNCHANGED <<now, smTTL, otherThanSM>>

SMValidateState(s) ==
    /\ memRes' = [NoRes EXCEPT !.op = "ValidateState",
                               !.valid = MemValidateState(memStates, s, now)]
    /\ redisRes' = [NoRes EXCEPT !.op = "ValidateState",
                                 !.valid = RedisValidateState(redisKeys, s, now)]
    /\ smLast' = [NoSMLast EXCEPT !.op = "ValidateState", !.state = s]
    /\ UNCHANGED <<now, smTTL, memStates, redisKeys, smFresh, otherThanSM>>

SMGetStateData(s) ==
    LET m == MemGetStateData(memStates, s, now)
        r == RedisGetStateData(redisKeys, s, now)
    IN  /\ memStates' = m.states
        /\ redisKeys' = r.keys
        /\ memRes' = [NoRes EXCEPT !.op = "GetStateData", !.err = m.err, !.data = m.data]
        /\ redisRes' = [NoRes EXCEPT !.op = "GetStateData", !.err = r.err, !.data = r.data]
        /\ smLast' = [op |-> "GetStateData", state |-> s,
                      first |-> smFresh[s].fresh,
                      stored |-> smFresh[s].data,
                      age |-> now - smFresh[s].at]
        /\ smFresh' = [smFresh EXCEPT ![s].fresh = FALSE,
                                      ![s].got = @ \/ (smFresh[s].fresh /\ m.err = "nil")]
        /\ UNCHANGED <<now, smTTL, otherThanSM>>

\* ------------------------ concurrent callers, each on one of the backends
Backends == {"mem", "redis"}
NoSMCall == [backend |-> "", state |-> "", isNil |-> FALSE, val |-> {}, lostRace |-> FALSE]
NoSMCLast == [backend |-> "", state |-> "", err |-> "", lostRace |-> FALSE]

\* the tokens and payloads of the concurrent runs
RaceTokens == {"s1"}
RacePayloads == {d \in Payloads : Cardinality(d) = 2}

\* StoreState on both backends; the in-memory one holds sm.mu for its body
CStoreState(s, data) ==
    /\ smMu = "free"
    /\ memStates' = MemStoreState(memStates, s, data, smTTL, now)
    /\ redisKeys' = RedisStoreState(redisKeys, s, data, smTTL, now)
    /\ smGot' = [b \in Backends |-> [smGot[b] EXCEPT ![s] = 0]]
    /\ UNCHANGED <<now, smTTL, smMu, smPc, smCall, smcLast, otherThanSMC>>

\* InMemoryStateManager.GetStateData is called and waits for sm.mu
CMemCall(p, s) ==
    /\ smPc[p] = "idle"
    /\ smPc' = [smPc EXCEPT ![p] = "m_lock"]
    /\ smCall' = [smCall EXCEPT ![p] = [NoSMCall EXCEPT !.backend = "mem", !.state = s]]
    /\ UNCHANGED <<now, smTTL, memStates, redisKeys, smMu, smGot, smcLast, otherThanSMC>>

\* sm.mu.Lock()
CMemLock(p) ==
    /\ smPc[p] = "m_lock"
    /\ smMu = "free"
    /\ smMu' = p
    /\ smPc' = [smPc EXCEPT ![p] = "m_body"]
    /\ UNCHANGED <<now, smTTL, memStates, redisKeys, smCall, smGot, smcLast, otherThanSMC>>

\* the body under the lock, the deferred Unlock and the return
CMemBody(p) ==
    /\ smPc[p] = "m_body"
    /\ LET s == smCall[p].state
           m == MemGetStateData(memStates, s, now)
       IN  /\ memStates' = m.states
           /\ smGot' = [smGot EXCEPT !["mem"][s] = IF m.err = "nil" THEN @ + 1 ELSE @]
           /\ smcLast' = [backend |-> "mem", state |-> s, err |-> m.err,
                          lostRace |-> smGot["mem"][s] > 0]
    /\ smMu' = "free"
    /\ smPc' = [smPc EXCEPT ![p] = "idle"]
    /\ smCall' = [smCall EXCEPT ![p] = NoSMCall]
    /\ UNCHANGED <<now, smTTL, redisKeys, otherThanSMC>>

\* RedisStateManager.GetStateData sends GETDEL and has the reply
CRedisGetDel(p, s) ==
    /\ smPc[p] = "idle"
    /\ LET r == RedisGetDel(redisKeys, s, now) IN
        /\ redisKeys' = r.keys
        /\ smCall' = [smCall EXCEPT ![p] = [backend |-> "redis", state |-> s,
                          isNil |-> r.isNil, val |-> r.val,
                          lostRace |-> smGot["redis"][s] > 0]]
        /\ smGot' = [smGot EXCEPT !["redis"][s] = IF r.isNil THEN @ ELSE @ + 1]
    /\ smPc' = [smPc EXCEPT ![p] = "r_reply"]
    /\ UNCHANGED <<now, smTTL, memStates, smMu, smcLast, otherThanSMC>>

\* RedisStateManager.GetStateData decodes the reply and returns
CRedisReturn(p) ==
    /\ smPc[p] = "r_reply"
    /\ LET res == RedisReplyToResult(smCall[p]) IN
        smcLast' = [backend |-> "redis", state |-> smCall[p].state, err |-> res.err,
                    lostRace |-> smCall[p].lostRace]
    /\ smPc' = [smPc EXCEPT ![p] = "idle"]
    /\ smCall' = [smCall EXCEPT ![p] = NoSMCall]
    /\ UNCHANGED <<now, smTTL, memStates, redisKeys, smMu, smGot, otherThanSMC>>

\* ========================================================== invitations
MaxInvs == 2            \* rows of table invitations
InvitationTTL == 2      \* config.InvitationConfig.DefaultExpirationDays, in clock units

Users == {"u1", "u2"}
InvEmails == {"new@b.com"}
InvTenants == {"t1"}

NoErr == [code |-> "nil", status |-> ""]
NoInv == [tenant |-> "", email |-> "", status |-> "", expiresAt |-> 0,
          accepted |-> FALSE, acceptedBy |-> "", updatedAt |-> 0]
NoInvLast == [op |-> "none", id |-> 0, before |-> NoInv, expired |-> FALSE, err |-> NoErr]

\* Invitation.IsExpired
Inv_IsExpired(i, t) == t > i.expiresAt

\* a mutant: the status is not looked at
Inv_CanBeAccepted_ExpiryOnly(i, t) == ~Inv_IsExpired(i, t)

\* Invitation.CanBeAccepted
Inv_CanBeAccepted(i, t) == i.status = "PENDING" /\ ~Inv_IsExpired(i, t)

\* Invitation.Accept: the error and the invitation afterwards
Inv_Accept(i, userID, t) ==
    IF ~Inv_CanBeAccepted(i, t)
    THEN IF Inv_IsExpired(i, t)
         THEN [err |-> [code |-> "EXPIRED", status |-> ""], inv |-> i]
         ELSE [err |-> [code |-> "INVALID", status |-> i.status], inv |-> i]
    ELSE [err |-> NoErr,
          inv |-> [i EXCEPT !.status = "ACCEPTED", !.accepted = TRUE,
                            !.acceptedBy = userID, !.updatedAt = t]]

\* Invitation.Revoke
Inv_Revoke(i, t) ==
    IF i.status = "ACCEPTED" THEN [err |-> [code |-> "ALREADY_ACCEPTED", status |-> ""], inv |-> i]
    ELSE IF i.status = "REVOKED" THEN [err |-> [code |-> "ALREADY_REVOKED", status |-> ""], inv |-> i]
    ELSE [err |-> NoErr, inv |-> [i EXCEPT !.status = "REVOKED", !.updatedAt = t]]

\* Invitation.MarkAsExpired
Inv_MarkAsExpired(i, t) ==
    IF i.status = "PENDING" /\ Inv_IsExpired(i, t)
    THEN [i EXCEPT !.status = "EXPIRED", !.updatedAt = t]
    ELSE i

\* ExistsPendingForEmail
ExistsPendingForEmail(email, tenant) ==
    \E k \in DOMAIN invs :
        invs[k].email = email /\ invs[k].tenant = tenant /\ invs[k].status = "PENDING"

\* CreateInvitation for a request that passes the tenant, inviter and
\* existing-user checks: the pending-invitation check and the insert
InvCreate(tenant, email) ==
    /\ Len(invs) < MaxInvs
    /\ IF ExistsPendingForEmail(email, tenant)
       THEN /\ invLast' = [NoInvLast EXCEPT !.op = "Create",
                              !.err = [code |-> "ALREADY_EXISTS", status |-> ""]]
            /\ UNCHANGED <<invs, invAccepts>>
       ELSE /\ invs' = Append(invs, [NoInv EXCEPT !.tenant = tenant, !.email = email,
                              !.status = "PENDING", !.expiresAt = now + InvitationTTL,
                              !.updatedAt = now])
            /\ invAccepts' = Append(invAccepts, 0)
            /\ invLast' = [NoInvLast EXCEPT !.op = "Create", !.id = Len(invs) + 1]
    /\ UNCHANGED <<now, otherThanInv>>

\* the registration flows: FindByToken, inv.Accept(userID), and Save when
\* Accept returned no error
InvAccept(k, userID) ==
    /\ k \in DOMAIN invs
    /\ LET r == Inv_Accept(invs[k], userID, now) IN
        /\ invs' = IF r.err = NoErr THEN [invs EXCEPT ![k] = r.inv] ELSE invs
        /\ invAccepts' = [invAccepts EXCEPT ![k] = IF r.err = NoErr THEN @ + 1 ELSE @]
        /\ invLast' = [op |-> "Accept", id |-> k, before |-> invs[k],
                       expired |-> Inv_IsExpired(invs[k], now), err |-> r.err]
    /\ UNCHANGED <<now, otherThanInv>>

\* RevokeInvitation by the invitation's own tenant
InvRevoke(k) ==
    /\ k \in DOMAIN invs
    /\ LET r == Inv_Revoke(invs[k], now) IN
        /\ invs' = IF r.err = NoErr THEN [invs EXCEPT ![k] = r.inv] ELSE invs
        /\ invLast' = [op |-> "Revoke", id |-> k, before |-> invs[k],
                       expired |-> Inv_IsExpired(invs[k], now), err |-> r.err]
    /\ UNCHANGED <<now, invAccepts, otherThanInv>>

\* CleanupExpiredInvitations: MarkAsExpired and Save on every row that
\* FindExpired returned
InvCleanup(found) ==
    /\ invs' = [k \in DOMAIN invs |->
                  IF k \in found THEN Inv_MarkAsExpired(invs[k], now) ELSE invs[k]]
    /\ invLast' = [NoInvLast EXCEPT !.op = "Cleanup"]
    /\ UNCHANGED <<now, invAccepts, otherThanInv>>

\* ---------------------------------- invitations asked for under a tenant
AllTenants == {"t1", "t2"}
NotFound == [code |-> "NOT_FOUND", status |-> "404"]

\* FindByID and the tenant comparison the three requests begin with: the
\* invitation, or NoInv for ErrInvitationNotFound
FindForTenant_AnyTenant(k, tenant) ==
    IF k \notin DOMAIN invs \/ invs[k] = NoInv THEN NoInv
    ELSE invs[k]
FindForTenant(k, tenant) ==
    IF k \notin DOMAIN invs \/ invs[k] = NoInv THEN NoInv
    ELSE IF invs[k].tenant # tenant THEN NoInv
    ELSE invs[k]

\* of a request under a tenant: the row as it was, as it is, and what the
\* answer shows of it
TenantAnswer(op, k, tenant, after, shown, err) ==
    /\ k \in DOMAIN invs
    /\ invs' = [invs EXCEPT ![k] = after]
    /\ invLast' = [op |-> op, id |-> k, tenant |-> tenant, before |-> invs[k],
                   after |-> after, shown |-> shown, err |-> err]
    /\ UNCHANGED <<now, invAccepts, otherThanInv>>

GetInvitationByID(k, tenant) ==
    LET inv == FindForTenant(k, tenant) IN
    IF inv = NoInv THEN TenantAnswer("Get", k, tenant, invs[k], NoInv, NotFound)
    ELSE TenantAnswer("Get", k, tenant, invs[k], inv, NoErr)

RevokeInvitation(k, tenant) ==
    LET inv == FindForTenant(k, tenant) IN
    IF inv = NoInv THEN TenantAnswer("Revoke", k, tenant, invs[k], NoInv, NotFound)
    ELSE LET r == Inv_Revoke(inv, now) IN
         TenantAnswer("Revoke", k, tenant, IF r.err = NoErr THEN r.inv ELSE invs[k], NoInv, r.err)

\* an invitation that was accepted is not deleted; a deleted row is NoInv
DeleteInvitation(k, tenant) ==
    LET inv == FindForTenant(k, tenant) IN
    IF inv = NoInv THEN TenantAnswer("Delete", k, tenant, invs[k], NoInv, NotFound)
    ELSE IF inv.status = "ACCEPTED"
    THEN TenantAnswer("Delete", k, tenant, invs[k], NoInv,
                      [code |-> "cannot delete accepted invitation", status |-> ""])
    ELSE TenantAnswer("Delete", k, tenant, NoInv, NoInv, NoErr)

\* ================================================ registration flows
\* One tenant; its users, its invitations and the requests that create them.
\* A request is cut at its database round trips: the reads at its start are
\* one step, every later write is a step of its own.
MaxUserRows == 2        \* user ids handed out
MaxReqs == 2            \* operations of the services taken in a run

RegEmails == {"a@x.com", "b@x.com"}
InvitedEmails == {"a@x.com"}
Plans == {"BASIC", "PROFESSIONAL"}

\* the expiry of the tenant's trial or subscription: within the clock's
\* range, or beyond it
TenantExpiries == {1, 100}

\* TenantService.getMaxUsersForPlan, scaled
getMaxUsersForPlan(plan) == IF plan = "PROFESSIONAL" THEN 2 ELSE 1

\* kernel.NewUserID(uuid.NewString()): the n-th id handed out
UidName(n) == "u" \o ToString(n)

NoUser == [id |-> "", email |-> "", oauth |-> FALSE, otp |-> FALSE, status |-> ""]
NoTenant == [active |-> FALSE, plan |-> "", max |-> 0, cur |-> 0, expiresAt |-> 0]

\* Tenant.IsActive
T_IsActive(t) == t.active

\* Tenant.CanAddUser
T_CanAddUser(t, time) == T_IsActive(t) /\ time <= t.expiresAt /\ t.cur < t.max

\* Tenant.AddUser: the error and the tenant afterwards
T_AddUser(t, time) ==
    IF T_CanAddUser(t, time) THEN [err |-> "nil", t |-> [t EXCEPT !.cur = @ + 1]]
    ELSE [err |-> "max_users", t |-> t]

\* Tenant.RemoveUser
T_RemoveUser(t) == IF t.cur > 0 THEN [t EXCEPT !.cur = @ - 1] ELSE t

\* Tenant.UpgradePlan: the plan and its ceiling; a ceiling below the current
\* user count is refused
T_UpgradePlan(t, plan) ==
    IF getMaxUsersForPlan(plan) < t.cur THEN [err |-> "invalid_plan", t |-> t]
    ELSE [err |-> "nil", t |-> [t EXCEPT !.plan = plan, !.max = getMaxUsersForPlan(plan)]]

\* FindByEmail / ExistsByEmail within the tenant
UsersByEmail(email) == {u \in users : u.email = email}

\* a mutant: the insert is not refused for an email the tenant already has
UserInsert_NoUnique(U, u) == [err |-> "nil", users |-> U \cup {u}]

\* PostgresUserRepository.create under CONSTRAINT uq_users_email_tenant
UserInsert(U, u) ==
    IF \E x \in U : x.email = u.email THEN [err |-> "duplicate", users |-> U]
    ELSE [err |-> "nil", users |-> U \cup {u}]

\* a request: its arguments, the copies it read, the user it created, its
\* result, and for a request that returned from its first step what held
\* in the database then
NoRCall == [op |-> "none", inv |-> 0, email |-> "", tcopy |-> NoTenant, icopy |-> NoInv,
            uid |-> "", res |-> "", linked |-> FALSE, created |-> FALSE,
            addFailed |-> FALSE, full0 |-> FALSE, existing0 |-> FALSE,
            active0 |-> FALSE, invOk0 |-> FALSE, otp0 |-> FALSE, oauth0 |-> FALSE,
            seq |-> 0]

\* operations are counted; handlers are interchangeable: the second takes
\* a request only while the first is busy
MayStart(p) == nReq < MaxReqs /\ (p = "p1" \/ rpc["p1"] # "idle")

\* a request as it starts, for invitation k (0: none) and email
StartCall(op, k, email) == [NoRCall EXCEPT !.op = op, !.inv = k, !.email = email]

\* a request that returns from its first step, with what held in the
\* database at that step; of a signup also the credentials of the user it
\* met, and a bit that tells its answer from the one before
AtStart(c, k, email) ==
    [c EXCEPT
        !.full0 = (tenantRow.cur = tenantRow.max),
        !.existing0 = (UsersByEmail(email) # {}),
        !.otp0 = (c.op = "signup" /\ \E u \in UsersByEmail(email) : u.otp),
        !.oauth0 = (c.op = "signup" /\ \E u \in UsersByEmail(email) : u.oauth),
        !.seq = IF c.op = "signup" THEN 1 - rLast.seq ELSE 0,
        !.active0 = T_IsActive(tenantRow),
        !.invOk0 = (k \in DOMAIN invs /\ Inv_CanBeAccepted(invs[k], now)
                        /\ invs[k].email = email)]

\* the request of handler p returns; what is kept of it is its kind, its
\* invitation, the user it made and its result
Complete(p, c) ==
    /\ rLast' = [c EXCEPT !.email = "", !.tcopy = NoTenant, !.icopy = NoInv]
    /\ rcall' = [rcall EXCEPT ![p] = NoRCall]
    /\ rpc' = [rpc EXCEPT ![p] = "idle"]

\* the request of handler p goes on at position pos
Continue(p, c, pos) ==
    /\ rcall' = [rcall EXCEPT ![p] = c]
    /\ rpc' = [rpc EXCEPT ![p] = pos]
    /\ UNCHANGED rLast

\* the invitation checks both signup flows begin with: FindByToken,
\* CanBeAccepted and the email comparison
InvitationCheck(k, email, time) ==
    IF k = 0 THEN "invitation_required"
    ELSE IF k \notin DOMAIN invs THEN "invalid_invitation"
    ELSE IF ~Inv_CanBeAccepted(invs[k], time)
         THEN IF Inv_IsExpired(invs[k], time) THEN "invitation_expired"
              ELSE "invitation_not_valid"
    ELSE IF invs[k].email # email THEN "email_mismatch"
    ELSE "nil"

\* ------------------------------------- OAuth callback: findOrCreateUser
\* a mutant: the quota is checked before the lookup of an existing user
OAuthDecide_QuotaFirst(k, email, time) ==
    LET chk == InvitationCheck(k, email, time) IN
    IF chk # "nil" THEN chk
    ELSE IF ~T_CanAddUser(tenantRow, time) THEN "max_users"
    ELSE IF UsersByEmail(email) # {} THEN "link"
    ELSE "create"

\* findOrCreateUser up to its first write: the error it returns, or "link"
\* or "create"
OAuthDecide(k, email, time) ==
    LET chk == InvitationCheck(k, email, time) IN
    IF chk # "nil" THEN chk
    ELSE IF UsersByEmail(email) # {} THEN "link"
    ELSE IF ~T_CanAddUser(tenantRow, time) THEN "max_users"
    ELSE "create"

\* the callback reads the invitation, the tenant and the user; an existing
\* user is linked and the callback succeeds
OAuthStart(p, k, email) ==
    /\ MayStart(p)
    /\ rpc[p] = "idle"
    /\ LET c == StartCall("oauth", k, email)
           d == OAuthDecide(k, email, now)
       IN  IF d = "link"
           THEN /\ users' = {[u EXCEPT !.oauth = (u.email = email) \/ @] : u \in users}
                /\ Complete(p, AtStart([c EXCEPT !.res = "ok", !.linked = TRUE], k, email))
           ELSE IF d = "create"
           THEN /\ Continue(p, [c EXCEPT !.tcopy = tenantRow], "o_save")
                /\ UNCHANGED users
           ELSE /\ Complete(p, AtStart([c EXCEPT !.res = d], k, email))
                /\ UNCHANGED users
    /\ nReq' = nReq + 1
    /\ UNCHANGED <<now, invs, tenantRow, nextUid, otherThanReg>>

\* userRepo.Save of the new user
OAuthSave(p) ==
    /\ rpc[p] = "o_save"
    /\ nextUid <= MaxUserRows
    /\ LET c == rcall[p]
           r == UserInsert(users, [id |-> UidName(nextUid), email |-> c.email,
                                   oauth |-> TRUE, otp |-> FALSE, status |-> "ACTIVE"])
       IN  /\ users' = r.users
           /\ IF r.err = "nil"
              THEN Continue(p, [c EXCEPT !.uid = UidName(nextUid)], "o_add")
              ELSE Complete(p, [c EXCEPT !.res = "save_failed"])
    /\ nextUid' = nextUid + 1
    /\ UNCHANGED <<now, invs, tenantRow, nReq, otherThanReg>>

\* a mutant: the user stays when the quota increment fails
OAuthAddUser_NoRollback(p) ==
    /\ rpc[p] = "o_add"
    /\ LET c == rcall[p]
           r == T_AddUser(c.tcopy, now)
       IN  IF r.err # "nil"
           THEN /\ Complete(p, [c EXCEPT !.res = r.err, !.addFailed = TRUE])
                /\ UNCHANGED <<users, tenantRow>>
           ELSE /\ tenantRow' = r.t
                /\ Continue(p, [c EXCEPT !.tcopy = r.t], "o_reload")
                /\ UNCHANGED users
    /\ UNCHANGED <<now, invs, nextUid, nReq, otherThanReg>>

\* tenantEntity.AddUser on the copy read at the start: on an error the user
\* is deleted and the callback fails, otherwise the tenant is saved
OAuthAddUser(p) ==
    /\ rpc[p] = "o_add"
    /\ LET c == rcall[p]
           r == T_AddUser(c.tcopy, now)
       IN  IF r.err # "nil"
           THEN /\ users' = {u \in users : u.id # c.uid}
                /\ Complete(p, [c EXCEPT !.res = r.err, !.addFailed = TRUE])
                /\ UNCHANGED tenantRow
           ELSE /\ tenantRow' = r.t
                /\ Continue(p, [c EXCEPT !.tcopy = r.t], "o_reload")
                /\ UNCHANGED users
    /\ UNCHANGED <<now, invs, nextUid, nReq, otherThanReg>>

\* the invitation is read again
OAuthReload(p) ==
    /\ rpc[p] = "o_reload"
    /\ Continue(p, [rcall[p] EXCEPT !.icopy = invs[rcall[p].inv]], "o_accept")
    /\ UNCHANGED <<now, invs, users, tenantRow, nextUid, nReq, otherThanReg>>

\* inv.Accept on the copy, Save when it returned no error; the callback
\* succeeds either way
OAuthAccept(p) ==
    /\ rpc[p] = "o_accept"
    /\ LET c == rcall[p]
           a == Inv_Accept(c.icopy, c.uid, now)
       IN  /\ invs' = IF a.err = NoErr THEN [invs EXCEPT ![c.inv] = a.inv] ELSE invs
           /\ Complete(p, [c EXCEPT !.res = "ok", !.created = TRUE])
    /\ UNCHANGED <<now, users, tenantRow, nextUid, nReq, otherThanReg>>

\* --------------------------------- passwordless signup: InitiateSignup
\* InitiateSignup up to its first write: the error it returns, "link" for
\* an OAuth-only user, or "create"
SignupDecide_LinkAlways(k, email, time) ==
    LET chk == InvitationCheck(k, email, time)
        ex == UsersByEmail(email)
    IN  IF chk # "nil" THEN (IF chk = "invitation_required" THEN "invalid_invitation" ELSE chk)
        ELSE IF ~T_IsActive(tenantRow) THEN "tenant_inactive"
        ELSE IF ex # {} THEN "link"
        ELSE IF ~T_CanAddUser(tenantRow, time) THEN "max_users"
        ELSE "create"
SignupDecide(k, email, time) ==
    LET chk == InvitationCheck(k, email, time)
        ex == UsersByEmail(email)
    IN  IF chk # "nil" THEN (IF chk = "invitation_required" THEN "invalid_invitation" ELSE chk)
        ELSE IF ~T_IsActive(tenantRow) THEN "tenant_inactive"
        ELSE IF \E u \in ex : u.otp THEN "conflict"
        ELSE IF \E u \in ex : u.oauth THEN "link"
        ELSE IF ex = {} /\ ~T_CanAddUser(tenantRow, time) THEN "max_users"
        ELSE "create"

\* the request reads the invitation, the tenant and the user; an OAuth-only
\* user gets OTP enabled and the request returns
SignupStart(p, k, email) ==
    /\ MayStart(p)
    /\ rpc[p] = "idle"
    /\ LET c == StartCall("signup", k, email)
           d == SignupDecide(k, email, now)
       IN  IF d = "link"
           THEN /\ users' = {[u EXCEPT !.otp = (u.email = email) \/ @] : u \in users}
                /\ Complete(p, AtStart([c EXCEPT !.res = "ok", !.linked = TRUE], k, email))
           ELSE IF d = "create"
           THEN /\ Continue(p, [c EXCEPT !.tcopy = tenantRow, !.icopy = invs[k]], "s_save")
                /\ UNCHANGED users
           ELSE /\ Complete(p, AtStart([c EXCEPT !.res = d], k, email))
                /\ UNCHANGED users
    /\ nReq' = nReq + 1
    /\ UNCHANGED <<now, invs, tenantRow, nextUid, otherThanReg>>

\* userRepo.Save of the new user
SignupSave(p) ==
    /\ rpc[p] = "s_save"
    /\ nextUid <= MaxUserRows
    /\ LET c == rcall[p]
           r == UserInsert(users, [id |-> UidName(nextUid), email |-> c.email,
                                   oauth |-> FALSE, otp |-> TRUE, status |-> "PENDING"])
       IN  /\ users' = r.users
           /\ IF r.err = "nil"
              THEN Continue(p, [c EXCEPT !.uid = UidName(nextUid)], "s_add")
              ELSE Complete(p, [c EXCEPT !.res = "save_failed"])
    /\ nextUid' = nextUid + 1
    /\ UNCHANGED <<now, invs, tenantRow, nReq, otherThanReg>>

\* tenantEntity.AddUser on the copy, the tenant saved when it returned no error
SignupAddUser(p) ==
    /\ rpc[p] = "s_add"
    /\ LET c == rcall[p]
           r == T_AddUser(c.tcopy, now)
       IN  /\ tenantRow' = IF r.err = "nil" THEN r.t ELSE tenantRow
           /\ Continue(p, [c EXCEPT !.tcopy = r.t, !.addFailed = (r.err # "nil")], "s_accept")
    /\ UNCHANGED <<now, invs, users, nextUid, nReq, otherThanReg>>

\* inv.Accept on the copy read at the start, Save when it returned no error;
\* the account is created either way
SignupAccept(p) ==
    /\ rpc[p] = "s_accept"
    /\ LET c == rcall[p]
           a == Inv_Accept(c.icopy, c.uid, now)
       IN  /\ invs' = IF a.err = NoErr THEN [invs EXCEPT ![c.inv] = a.inv] ELSE invs
           /\ Complete(p, [c EXCEPT !.res = "ok", !.created = TRUE])
    /\ UNCHANGED <<now, users, tenantRow, nextUid, nReq, otherThanReg>>

\* ------------------------------------------- UserService.CreateUser
CreateUserDecide(email, time) ==
    IF ~T_IsActive(tenantRow) THEN "tenant_suspended"
    ELSE IF ~T_CanAddUser(tenantRow, time) THEN "max_users"
    ELSE IF UsersByEmail(email) # {} THEN "user_exists"
    ELSE "create"

CreateUserStart(p, email) ==
    /\ MayStart(p)
    /\ rpc[p] = "idle"
    /\ LET c == StartCall("create_user", 0, email)
           d == CreateUserDecide(email, now)
       IN  IF d = "create"
           THEN Continue(p, [c EXCEPT !.tcopy = tenantRow], "u_save")
           ELSE Complete(p, AtStart([c EXCEPT !.res = d], 0, email))
    /\ nReq' = nReq + 1
    /\ UNCHANGED <<now, invs, users, tenantRow, nextUid, otherThanReg>>

\* userRepo.Save of the new user
CreateUserSave(p) ==
    /\ rpc[p] = "u_save"
    /\ nextUid <= MaxUserRows
    /\ LET c == rcall[p]
           r == UserInsert(users, [id |-> UidName(nextUid), email |-> c.email,
                                   oauth |-> FALSE, otp |-> FALSE, status |-> "PENDING"])
       IN  /\ users' = r.users
           /\ IF r.err = "nil"
              THEN Continue(p, [c EXCEPT !.uid = UidName(nextUid)], "u_add")
              ELSE Complete(p, [c EXCEPT !.res = "save_failed"])
    /\ nextUid' = nextUid + 1
    /\ UNCHANGED <<now, invs, tenantRow, nReq, otherThanReg>>

\* tenantEntity.AddUser on the copy, the tenant saved when it returned no
\* error; the user is returned either way
CreateUserAddUser(p) ==
    /\ rpc[p] = "u_add"
    /\ LET c == rcall[p]
           r == T_AddUser(c.tcopy, now)
       IN  /\ tenantRow' = IF r.err = "nil" THEN r.t ELSE tenantRow
           /\ Complete(p, [c EXCEPT !.res = "ok", !.created = TRUE,
                                    !.addFailed = (r.err # "nil")])
    /\ UNCHANGED <<now, invs, users, nextUid, nReq, otherThanReg>>

\* UserService.DeleteUser
DeleteUser(id) ==
    /\ nReq < MaxReqs
    /\ \E u \in users : u.id = id
    /\ users' = {u \in users : u.id # id}
    /\ tenantRow' = T_RemoveUser(tenantRow)
    /\ nReq' = nReq + 1
    /\ UNCHANGED <<now, invs, nextUid, rpc, rcall, rLast, otherThanReg>>

\* ------------------------------------------------- TenantService
UpgradeTenantPlan(plan) ==
    /\ nReq < MaxReqs
    /\ tenantRow' = T_UpgradePlan(tenantRow, plan).t
    /\ nReq' = nReq + 1
    /\ UNCHANGED <<now, invs, users, nextUid, rpc, rcall, rLast, otherThanReg>>

\* SuspendTenant and ActivateTenant
SetTenantActive(b) ==
    /\ nReq < MaxReqs
    /\ tenantRow' = [tenantRow EXCEPT !.active = b]
    /\ nReq' = nReq + 1
    /\ UNCHANGED <<now, invs, users, nextUid, rpc, rcall, rLast, otherThanReg>>

\* ------------------------------- InvitationService.CreateInvitation
\* the invitation CreateInvitation builds at time t
NewInvitation(email, t) ==
    [NoInv EXCEPT !.tenant = "t1", !.email = email, !.status = "PENDING",
                  !.expiresAt = t + InvitationTTL, !.updatedAt = t]

\* the checks of CreateInvitation for an inviter who may invite
CreateInvitationDecide(email) ==
    IF ~T_IsActive(tenantRow) THEN "tenant_suspended"
    ELSE IF UsersByEmail(email) # {} THEN "user_exists"
    ELSE IF ExistsPendingForEmail(email, "t1") THEN "already_exists"
    ELSE "create"

CreateInvitationCheck(p, email) ==
    /\ MayStart(p)
    /\ rpc[p] = "idle"
    /\ LET c == StartCall("invite", 0, email)
           d == CreateInvitationDecide(email)
       IN  IF d = "create"
           THEN Continue(p, [c EXCEPT !.icopy = NewInvitation(email, now)], "i_save")
           ELSE Complete(p, [c EXCEPT !.res = d])
    /\ nReq' = nReq + 1
    /\ UNCHANGED <<now, invs, users, tenantRow, nextUid, otherThanReg>>

\* invitationRepo.Save of the new invitation
CreateInvitationSave(p) ==
    /\ rpc[p] = "i_save"
    /\ Len(invs) < MaxInvs
    /\ invs' = Append(invs, rcall[p].icopy)
    /\ Complete(p, [rcall[p] EXCEPT !.res = "ok", !.inv = Len(invs) + 1, !.created = TRUE])
    /\ UNCHANGED <<now, users, tenantRow, nextUid, nReq, otherThanReg>>

\* RevokeInvitation and CleanupExpiredInvitations beside the requests
RegRevoke(k) ==
    /\ nReq < MaxReqs
    /\ k \in DOMAIN invs
    /\ LET r == Inv_Revoke(invs[k], now) IN
        invs' = IF r.err = NoErr THEN [invs EXCEPT ![k] = r.inv] ELSE invs
    /\ nReq' = nReq + 1
    /\ UNCHANGED <<now, users, tenantRow, nextUid, rpc, rcall, rLast, otherThanReg>>

RegCleanup ==
    /\ invs' = [k \in DOMAIN invs |-> Inv_MarkAsExpired(invs[k], now)]
    /\ UNCHANGED <<now, users, tenantRow, nextUid, rpc, rcall, rLast, nReq, otherThanReg>>

\* =============================================== unified authenticator
\* A credential is a string; what the code reads of it is the text before
\* its second "_" (empty when it has fewer than two), the length of the rest
\* and, to tell credentials apart, the rest itself.
KeyPrefixLive == "manifesto_live"
KeyPrefixTest == "manifesto_test"
KeyBodyLen == 64

NoCred == [prefix |-> "", n |-> 0, id |-> ""]
KeyA == [prefix |-> KeyPrefixLive, n |-> KeyBodyLen, id |-> "A"]
KeyB == [prefix |-> KeyPrefixTest, n |-> KeyBodyLen, id |-> "B"]
ShortKey == [prefix |-> KeyPrefixLive, n |-> KeyBodyLen - 1, id |-> "S"]
Jwt1 == [prefix |-> "", n |-> 0, id |-> "jwt1"]
Jwt2 == [prefix |-> "", n |-> 0, id |-> "jwt2"]

\* the secrets CreateAPIKey hands out; KeyB has the format of a key and was
\* never issued
KeySecrets == {KeyA}

\* the Authorization header: a scheme and what follows the first space
NoHeader == [scheme |-> "", value |-> NoCred]
AuthHeaders ==
    {NoHeader} \cup
    [scheme : {"Bearer", "X-API-Key", "Basic"}, value : {KeyA, ShortKey, Jwt1, Jwt2}]

\* the requests: Authorization header, X-API-Key header, api_key query
\* parameter and access_token cookie
Requests ==
    [auth : AuthHeaders, xkey : {NoCred, KeyA, ShortKey}, query : {NoCred, KeyB},
     cookie : {NoCred, Jwt1}]


\* apikey.ValidateAPIKeyFormat
ValidateAPIKeyFormat(c) ==
    c.prefix \in {KeyPrefixLive, KeyPrefixTest} /\ c.n = KeyBodyLen

\* a credential in the format of an API key is present where keys are read
HasKeyCredential(req) ==
    \/ (req.auth.scheme \in {"Bearer", "X-API-Key"} /\ ValidateAPIKeyFormat(req.auth.value))
    \/ ValidateAPIKeyFormat(req.xkey)
    \/ ValidateAPIKeyFormat(req.query)

\* apikey.HashAPIKey
HashAPIKey(c) == <<"sha256", c.prefix, c.id>>

\* extractAPIKey
extractAPIKey(req) ==
    IF /\ req.auth # NoHeader
       /\ req.auth.scheme \in {"Bearer", "X-API-Key"}
       /\ ValidateAPIKeyFormat(req.auth.value)
    THEN req.auth.value
    ELSE IF req.xkey # NoCred /\ ValidateAPIKeyFormat(req.xkey) THEN req.xkey
    ELSE IF req.query # NoCred /\ ValidateAPIKeyFormat(req.query) THEN req.query
    ELSE NoCred

NoAPIKey == [hash |-> <<>>, active |-> FALSE, hasExpiry |-> FALSE, expiresAt |-> 0,
             revoked |-> FALSE]

\* a mutant: the active flag is not looked at
APIKey_IsValid_ExpiryOnly(k, t) == ~(k.hasExpiry /\ t > k.expiresAt)

\* APIKey.IsValid
APIKey_IsValid(k, t) ==
    IF ~k.active THEN FALSE
    ELSE IF k.hasExpiry /\ t > k.expiresAt THEN FALSE
    ELSE TRUE

\* APIKey.Revoke; field revoked remembers that it was called
APIKey_Revoke(k) == [k EXCEPT !.active = FALSE, !.revoked = TRUE]

\* the row stored for a secret, or NoAPIKey
KeyByHash(h) ==
    IF \E k \in apiKeys : k.hash = h THEN CHOOSE k \in apiKeys : k.hash = h ELSE NoAPIKey

\* APIKeyService.ValidateAPIKey: the lookup by hash and IsValid
ValidateAPIKey(c, t) ==
    LET k == KeyByHash(HashAPIKey(c)) IN
    IF k = NoAPIKey THEN "not_found"
    ELSE IF ~APIKey_IsValid(k, t) THEN "invalid"
    ELSE "nil"

\* JWTService.ValidateAccessToken: Jwt1 is a token the service signed that
\* has not expired
ValidateAccessToken(c) == c = Jwt1

\* authenticateJWT: the token it validates, from the Bearer header or the
\* cookie
jwtToken(req) ==
    IF req.auth # NoHeader /\ req.auth.scheme = "Bearer" /\ req.auth.value # NoCred
    THEN req.auth.value
    ELSE req.cookie

authenticateJWT(req) ==
    IF jwtToken(req) = NoCred THEN FALSE ELSE ValidateAccessToken(jwtToken(req))

\* of the request the authenticator handled: its time, whether it held a credential
\* in key format, the paths that ran, whether an authorization context was
\* built, and the row of the key it presented as it was then
NoAuthLast == [handled |-> FALSE, at |-> 0, hasKeyCred |-> FALSE,
               ranKey |-> FALSE, ranJWT |-> FALSE, granted |-> FALSE,
               isAPIKey |-> FALSE, key |-> NoAPIKey]

\* a mutant: a key that fails validation is tried again as a token
AuthOutcome_RetryAsToken(req, t) ==
    LET apiKey == extractAPIKey(req) IN
    IF apiKey # NoCred /\ ValidateAPIKey(apiKey, t) = "nil"
    THEN [NoAuthLast EXCEPT !.handled = TRUE, !.ranKey = TRUE,
              !.granted = TRUE, !.isAPIKey = TRUE,
              !.key = KeyByHash(HashAPIKey(apiKey))]
    ELSE [NoAuthLast EXCEPT !.handled = TRUE, !.ranKey = (apiKey # NoCred),
              !.ranJWT = TRUE, !.granted = authenticateJWT(req),
              !.key = KeyByHash(HashAPIKey(apiKey))]

\* UnifiedAuthMiddleware.Authenticate with authenticateAPIKey
AuthOutcome(req, t) ==
    LET apiKey == extractAPIKey(req) IN
    IF apiKey # NoCred
    THEN [NoAuthLast EXCEPT !.handled = TRUE, !.ranKey = TRUE,
              !.granted = (ValidateAPIKey(apiKey, t) = "nil"),
              !.isAPIKey = (ValidateAPIKey(apiKey, t) = "nil"),
              !.key = KeyByHash(HashAPIKey(apiKey))]
    ELSE [NoAuthLast EXCEPT !.handled = TRUE, !.ranJWT = TRUE,
              !.granted = authenticateJWT(req)]

\* the middleware handles a request
Authenticate(req) ==
    /\ authLast' = [AuthOutcome(req, now) EXCEPT !.at = now,
                                                   !.hasKeyCred = HasKeyCredential(req)]
    /\ UNCHANGED <<now, apiKeys, otherThanAuth>>

\* APIKeyService.CreateAPIKey: the hash of the new secret is stored, with an
\* expiry or without
CreateAPIKey(c, hasExpiry) ==
    /\ \A k \in apiKeys : k.hash # HashAPIKey(c)
    /\ apiKeys' = apiKeys \cup {[NoAPIKey EXCEPT !.hash = HashAPIKey(c), !.active = TRUE,
                                   !.hasExpiry = hasExpiry,
                                   !.expiresAt = IF hasExpiry THEN now + 1 ELSE 0]}
    /\ UNCHANGED <<now, authLast, otherThanAuth>>

\* APIKeyService.RevokeAPIKey
RevokeAPIKey(h) ==
    /\ \E k \in apiKeys : k.hash = h
    /\ apiKeys' = {IF k.hash = h THEN APIKey_Revoke(k) ELSE k : k \in apiKeys}
    /\ UNCHANGED <<now, authLast, otherThanAuth>>

\* ======================================================== scope model
\* A scope is a string, here a sequence of characters.
MaxScopeLen == 3        \* characters of a granted scope; a required one has one more
MaxScopes == 2          \* scopes in a scope list

ScopeChars == {"j", ":", "*"}

\* the strings of at most n characters
ScopeStrings(n) == UNION {[1..k -> ScopeChars] : k \in 0..n}

\* the scope lists
ScopeLists == UNION {[1..k -> ScopeStrings(MaxScopeLen)] : k \in 0..MaxScopes}

\* a mutant: the wildcard's prefix is matched without the ":" after it
UserHasScopeOne_NoBoundary(s, scope) ==
    \/ s = scope
    \/ s = <<"*">>
    \/ /\ Len(s) > 2
       /\ SubSeq(s, Len(s) - 1, Len(s)) = <<":", "*">>
       /\ LET prefix == SubSeq(s, 1, Len(s) - 2) IN
            /\ Len(scope) > Len(prefix)
            /\ SubSeq(scope, 1, Len(prefix)) = prefix

\* the body of the loop of User.HasScope for the list's scope s
UserHasScopeOne(s, scope) ==
    \/ s = scope
    \/ s = <<"*">>
    \/ /\ Len(s) > 2
       /\ SubSeq(s, Len(s) - 1, Len(s)) = <<":", "*">>
       /\ LET prefix == SubSeq(s, 1, Len(s) - 2) IN
            /\ Len(scope) > Len(prefix)
            /\ SubSeq(scope, 1, Len(prefix)) = prefix
            /\ scope[Len(prefix) + 1] = ":"

\* User.HasScope
UserHasScope(S, scope) == \E i \in DOMAIN S : UserHasScopeOne(S[i], scope)

\* APIKey.HasScope
APIKeyHasScope(S, scope) == \E i \in DOMAIN S : S[i] = scope \/ S[i] = <<"*">>

NoScopeOut == [done |-> FALSE, user |-> FALSE, key |-> FALSE]

\* both matchers are asked about the same scope list and required scope
CheckScope ==
    /\ ~scopeOut.done
    /\ scopeOut' = [done |-> TRUE, user |-> UserHasScope(scopeIn.S, scopeIn.r),
                    key |-> APIKeyHasScope(scopeIn.S, scopeIn.r)]
    /\ UNCHANGED <<now, scopeIn, otherThanScope>>

\* ============================================ refresh tokens and sessions
MaxRToks == 2           \* rows of refresh_tokens explored
RefreshTokenTTL == 2    \* config.JWTConfig.RefreshTokenTTL, in clock units
TokUsers == {"u1", "u2"}
SecretKeys == {1, 2}    \* the values of config.JWTConfig.SecretKey explored

\* a refresh token is the JWT of GenerateRefreshToken: its subject and the key
\* that signed it; the row holds that string beside the row's own fields.
NewRefreshToken(u, t) ==
    [user |-> u, key |-> secretKey, expiresAt |-> t + RefreshTokenTTL, revoked |-> FALSE]

\* of a session, the fields a logout reads and writes
NewSession(u) == [user |-> u, revoked |-> FALSE]

\* a row counts when it is not revoked and its expiry has not passed
RefreshToken_IsValid(row, t) == ~row.revoked /\ t <= row.expiresAt

\* the signature of a stored token verifies under the key of the running process
SignatureValid(i) == i \in DOMAIN rtoks /\ rtoks[i].key = secretKey

NoTokLast ==
    [op |-> "none", tok |-> 0, granted |-> FALSE,
     sigValid |-> FALSE, rowLive |-> FALSE, covered |-> FALSE]

\* the tail of a login: the refresh token is saved, the session is saved on a
\* best-effort basis (its error is dropped).
IssueTokens(u, sessErr) ==
    /\ Len(rtoks) < MaxRToks
    /\ rtoks' = Append(rtoks, NewRefreshToken(u, now))
    /\ sessions' = IF sessErr THEN sessions ELSE Append(sessions, NewSession(u))
    /\ tokLast' = NoTokLast
    /\ UNCHANGED <<now, secretKey, loggedOut, otherThanTok>>

\* POST /auth/refresh with the token of row i, or with a string of no row (0):
\* the row is looked up by the string and asked IsValid; userOK says that the
\* row's user and tenant are found, CanLogin and IsActive. The token's signature
\* is not looked at.
RefreshToken(i, userOK) ==
    LET found == i \in DOMAIN rtoks
        live == found /\ RefreshToken_IsValid(rtoks[i], now)
    IN  /\ tokLast' = [op |-> "refresh", tok |-> i,
                       granted |-> live /\ userOK,
                       sigValid |-> SignatureValid(i),
                       rowLive |-> live,
                       covered |-> i \in loggedOut.toks]
        /\ UNCHANGED <<now, rtoks, sessions, secretKey, loggedOut, otherThanTok>>

RevokeAllUserTokens(u) ==
    [i \in DOMAIN rtoks |->
        IF rtoks[i].user = u THEN [rtoks[i] EXCEPT !.revoked = TRUE] ELSE rtoks[i]]

RevokeAllUserSessions(u) ==
    [i \in DOMAIN sessions |->
        IF sessions[i].user = u THEN [sessions[i] EXCEPT !.revoked = TRUE] ELSE sessions[i]]

\* POST /auth/logout of the authenticated principal u: both revocations are
\* attempted, the error of either is dropped, and success is reported.
Logout(u, tokErr, sessErr) ==
    /\ rtoks' = IF tokErr THEN rtoks ELSE RevokeAllUserTokens(u)
    /\ sessions' = IF sessErr THEN sessions ELSE RevokeAllUserSessions(u)
    /\ loggedOut' =
         [toks |-> loggedOut.toks \cup {i \in DOMAIN rtoks : rtoks[i].user = u},
          sess |-> loggedOut.sess \cup {i \in DOMAIN sessions : sessions[i].user = u}]
    /\ tokLast' = NoTokLast
    /\ UNCHANGED <<now, secretKey, otherThanTok>>

\* the process is started again with another JWT_SECRET_KEY; the tables stay
NewJWTServiceFromConfig(k) ==
    /\ k # secretKey
    /\ secretKey' = k
    /\ tokLast' = NoTokLast
    /\ UNCHANGED <<now, rtoks, sessions, loggedOut, otherThanTok>>

\* ========================================================= access tokens
AccessTokenTTL == 2     \* config.JWTConfig.AccessTokenTTL, in clock units
JwtUsers == {"u1", "u2"}
JwtTenants == {"t1", "t2"}
NilScopes == "nil"      \* claims["scopes"] absent or not a []string
ScopeClaims == {NilScopes, <<>>, <<"a">>, <<"a", "b">>, <<"b", "a">>}
NoJwt == [alg |-> "", sig |-> 0]

\* the token GenerateAccessToken signs at time t: the claims, HS256, and the
\* signature, which is the key and whether it still covers the claims.
AccessToken_NoScopes(u, ten, scopes, t) ==
    [alg |-> "HS256", user |-> u, tenant |-> ten, scopes |-> <<>>,
     iat |-> t, nbf |-> t, exp |-> t + AccessTokenTTL, sig |-> secretKey, intact |-> TRUE]
AccessToken(u, ten, scopes, t) ==
    [alg |-> "HS256", user |-> u, tenant |-> ten,
     scopes |-> IF scopes = NilScopes THEN <<>> ELSE scopes,
     iat |-> t, nbf |-> t, exp |-> t + AccessTokenTTL, sig |-> secretKey, intact |-> TRUE]

\* jwt.ParseWithClaims under the key function of ValidateAccessToken: why the
\* token is refused at time t, or "" when it is accepted.
ParseError(tok, t) ==
    IF tok.alg \notin {"HS256", "HS384", "HS512"} THEN "unexpected signing method"
    ELSE IF tok.sig # secretKey \/ ~tok.intact THEN "signature is invalid"
    ELSE IF ~(t < tok.exp) THEN "token is expired"
    ELSE IF t < tok.nbf THEN "token is not valid yet"
    ELSE ""

\* ErrTokenValidationFailed().WithDetail("error", cause)
ErrTokenValidationFailed(cause) ==
    [code |-> "TOKEN_VALIDATION_FAILED", message |-> "invalid token", detail |-> cause]

\* errx.Error.Error(): the code and the message, not the details
ErrorString(e) == <<e.code, e.message>>

JWTService_ValidateAccessToken(tok, t) ==
    LET cause == ParseError(tok, t) IN
    IF cause # ""
    THEN [ok |-> FALSE, err |-> ErrTokenValidationFailed(cause)]
    ELSE [ok |-> TRUE, user |-> tok.user, tenant |-> tok.tenant, scopes |-> tok.scopes]

NoJwtRes ==
    [done |-> FALSE, ok |-> FALSE, status |-> 0, body |-> <<>>, cause |-> "",
     user |-> "", tenant |-> "", scopes |-> <<>>, fresh |-> FALSE]

\* what authenticateJWT answers for a token: 401 with err.Error(), or the
\* principal it puts in the request context.
authenticateJWTReply_WithDetail(tok, t) ==
    LET v == JWTService_ValidateAccessToken(tok, t) IN
    IF ~v.ok
    THEN [NoJwtRes EXCEPT !.done = TRUE, !.status = 401,
                          !.body = ErrorString(v.err) \o <<v.err.detail>>,
                          !.cause = v.err.detail]
    ELSE [NoJwtRes EXCEPT !.done = TRUE, !.ok = TRUE, !.status = 200,
                          !.user = v.user, !.tenant = v.tenant, !.scopes = v.scopes]
authenticateJWTReply(tok, t) ==
    LET v == JWTService_ValidateAccessToken(tok, t) IN
    IF ~v.ok
    THEN [NoJwtRes EXCEPT !.done = TRUE, !.status = 401, !.body = ErrorString(v.err),
                          !.cause = v.err.detail]
    ELSE [NoJwtRes EXCEPT !.done = TRUE, !.ok = TRUE, !.status = 200,
                          !.user = v.user, !.tenant = v.tenant, !.scopes = v.scopes]

GenerateAccessToken ==
    /\ jwtTok = NoJwt
    /\ jwtTok' = AccessToken(jwtIn.user, jwtIn.tenant, jwtIn.scopes, now)
    /\ UNCHANGED <<now, jwtIn, jwtRes, otherThanJwt>>

\* the caller alters the token: its claims, its algorithm header, or a
\* signature under another key
TamperToken(kind) ==
    /\ jwtTok # NoJwt /\ jwtTok.intact /\ jwtTok.alg = "HS256" /\ jwtTok.sig = secretKey
    /\ jwtTok' = CASE kind = "claims" -> [jwtTok EXCEPT !.user = "u2", !.intact = FALSE]
                   [] kind = "alg" -> [jwtTok EXCEPT !.alg = "none"]
                   [] OTHER -> [jwtTok EXCEPT !.sig = 0]
    /\ jwtRes' = NoJwtRes
    /\ UNCHANGED <<now, jwtIn, otherThanJwt>>

PresentToken ==
    /\ jwtTok # NoJwt
    /\ jwtRes' = [authenticateJWTReply(jwtTok, now) EXCEPT
                    !.fresh = (jwtTok = AccessToken(jwtIn.user, jwtIn.tenant, jwtIn.scopes, now))]
    /\ UNCHANGED <<now, jwtIn, jwtTok, otherThanJwt>>

\* ============================================================ the reaper
MaxPasses == 3          \* cleanup passes explored
CleanupSteps == 3       \* refresh tokens, sessions, password-reset tokens

NoRStat == [passes |-> 0, taken |-> 0, done |-> 0, steps |-> 0, late |-> FALSE, failed |-> FALSE]

\* Start: the ticker is created and the first pass begins before ctx is looked at
ReaperStart ==
    /\ reaperPc = "idle"
    /\ reaperPc' = "pass" /\ rstep' = 1
    /\ rstat' = [rstat EXCEPT !.passes = 1]
    /\ UNCHANGED <<now, tickPending, cancelled, otherThanReap>>

\* runCleanup: one step returns, with an error or without; the error is
\* logged and the next step follows.
runCleanup_StopOnError(err) ==
    /\ reaperPc = "pass"
    /\ IF rstep = CleanupSteps \/ err
       THEN /\ reaperPc' = "select" /\ rstep' = 0
            /\ rstat' = [rstat EXCEPT !.steps = @ + 1, !.done = @ + 1, !.failed = @ \/ err]
       ELSE /\ reaperPc' = "pass" /\ rstep' = rstep + 1
            /\ rstat' = [rstat EXCEPT !.steps = @ + 1, !.failed = @ \/ err]
    /\ UNCHANGED <<now, tickPending, cancelled, otherThanReap>>
runCleanup(err) ==
    /\ reaperPc = "pass"
    /\ IF rstep = CleanupSteps
       THEN /\ reaperPc' = "select" /\ rstep' = 0
            /\ rstat' = [rstat EXCEPT !.steps = @ + 1, !.done = @ + 1, !.failed = @ \/ err]
       ELSE /\ reaperPc' = "pass" /\ rstep' = rstep + 1
            /\ rstat' = [rstat EXCEPT !.steps = @ + 1, !.failed = @ \/ err]
    /\ UNCHANGED <<now, tickPending, cancelled, otherThanReap>>

\* the ticker fires: ticker.C holds one tick, a tick that finds it full is lost
TickerFire ==
    /\ reaperPc \in {"pass", "select"}
    /\ ~tickPending
    /\ tickPending' = TRUE
    /\ UNCHANGED <<now, reaperPc, rstep, cancelled, rstat, otherThanReap>>

\* select takes the case <-ticker.C; when ctx.Done() is ready too, select
\* chooses either case
SelectTick ==
    /\ reaperPc = "select" /\ tickPending
    /\ rstat.passes < MaxPasses
    /\ tickPending' = FALSE
    /\ reaperPc' = "pass" /\ rstep' = 1
    /\ rstat' = [rstat EXCEPT !.passes = @ + 1, !.taken = @ + 1, !.late = @ \/ cancelled]
    /\ UNCHANGED <<now, cancelled, otherThanReap>>

\* select takes the case <-ctx.Done()
SelectDone ==
    /\ reaperPc = "select" /\ cancelled
    /\ reaperPc' = "stopped"
    /\ UNCHANGED <<now, rstep, tickPending, cancelled, rstat, otherThanReap>>

\* the owner of ctx cancels it while the reaper runs
Cancel ==
    /\ reaperPc \in {"pass", "select"}
    /\ ~cancelled
    /\ cancelled' = TRUE
    /\ UNCHANGED <<now, reaperPc, rstep, tickPending, rstat, otherThanReap>>

\* ================================================= passwordless lookups
MaxPwlOtps == 2         \* OTPs created by the handlers explored
PwlEmails == {"a@x.com", "b@x.com"}
PwlTenants == {"t1", "t2"}
\* a pending user has not verified its email: VerifySignup, which marks the
\* email verified, activates a pending user in the same save
PwlUserRows ==
    {u \in [email : {"a@x.com"}, tenant : PwlTenants, status : {"active", "pending"},
            otp : BOOLEAN, verified : BOOLEAN] : u.status = "pending" => ~u.verified}
GenOutcomes == {"sent", "limited", "sendfail"}   \* what GenerateOTP does when called

\* userRepo.FindByEmail: the rows of the email within the tenant
FindByEmail(email, tenant) == {u \in pwlUsers : u.email = email /\ u.tenant = tenant}

\* userRepo.FindByEmailAcrossTenants
FindByEmailAcrossTenants(email) == {u \in pwlUsers : u.email = email}

\* the answer after GenerateOTP was called: any error is a 429
GenReply(gen, okBody) ==
    IF gen = "sent"
    THEN [status |-> 200, body |-> okBody, issued |-> TRUE, sent |-> TRUE]
    ELSE [status |-> 429, body |-> "error", issued |-> gen = "sendfail", sent |-> FALSE]

Refusal(st, body) == [status |-> st, body |-> body, issued |-> FALSE, sent |-> FALSE]

InitiateLoginReply_NotFound(found, tenantActive, gen) ==
    IF found = {} THEN Refusal(404, "user not found")
    ELSE LET u == CHOOSE x \in found : TRUE IN
         IF u.status # "active" THEN Refusal(403, "account is not active")
         ELSE IF ~u.otp THEN Refusal(400, "use oauth")
         ELSE IF ~u.verified THEN Refusal(403, "email not verified")
         ELSE IF ~tenantActive THEN Refusal(403, "unavailable")
         ELSE GenReply(gen, "login code sent")
InitiateLoginReply(found, tenantActive, gen) ==
    IF found = {} THEN Refusal(200, "if registered, a code is sent")
    ELSE LET u == CHOOSE x \in found : TRUE IN
         IF u.status # "active" THEN Refusal(403, "account is not active")
         ELSE IF ~u.otp THEN Refusal(400, "use oauth")
         ELSE IF ~u.verified THEN Refusal(403, "email not verified")
         ELSE IF ~tenantActive THEN Refusal(403, "unavailable")
         ELSE GenReply(gen, "login code sent")

ResendOTPReply(found, tenantActive, purpose, gen) ==
    IF found = {} THEN Refusal(200, "if registered, a code is sent")
    ELSE LET u == CHOOSE x \in found : TRUE IN
         IF ~tenantActive THEN Refusal(403, "unable to send")
         ELSE IF purpose = "signup" /\ u.status # "pending" THEN Refusal(400, "already verified")
         ELSE IF purpose = "login" /\ u.status # "active" THEN Refusal(403, "account is not active")
         ELSE GenReply(gen, "code sent")

\* GetUserTenants: the tenants listed for the email, the active ones of its users
GetUserTenantsReply(found) ==
    [status |-> 200, body |-> {u.tenant : u \in {x \in found : x.tenant \in pwlActive}},
     issued |-> FALSE, sent |-> FALSE]

NoPwlUser == [email |-> "", tenant |-> "", status |-> "", otp |-> FALSE, verified |-> FALSE]

\* of a request: whether the email was known, the answer, whether an OTP was
\* created and sent; of a verification also the tenant asked for, the user
\* row read, the tenant whose request created the OTP consumed, and whether
\* a token pair was issued
NoPwlOut ==
    [op |-> "none", known |-> FALSE, status |-> 0, body |-> "", issued |-> FALSE, sent |-> FALSE,
     tenant |-> "", user |-> NoPwlUser, otpTenant |-> "", tokens |-> FALSE]

\* the handler's answer; the OTP GenerateOTP created is kept under the
\* contact alone.  Its random code is taken different from every code drawn
\* before: the code of the i-th OTP is i
PwlAnswer(op, email, tenant, known, reply) ==
    /\ reply.issued => Len(pwlOtps) < MaxPwlOtps
    /\ IF reply.issued
       THEN pwlOtps' = Append(pwlOtps, [otp |-> NewOTP(email, "VERIFICATION",
                                                       Len(pwlOtps) + 1, now),
                                        tenant |-> tenant])
       ELSE pwlOtps' = pwlOtps
    /\ pwlSent' = IF reply.sent THEN pwlSent + 1 ELSE pwlSent
    /\ pwlOut' = [NoPwlOut EXCEPT !.op = op, !.known = known, !.status = reply.status,
                                  !.body = reply.body, !.issued = reply.issued,
                                  !.sent = reply.sent]
    /\ UNCHANGED <<now, pwlUsers, pwlActive, otherThanPwl>>

InitiateLogin(email, tenant, gen) ==
    LET found == FindByEmail(email, tenant) IN
    PwlAnswer("login", email, tenant, found # {}, InitiateLoginReply(found, tenant \in pwlActive, gen))

ResendOTP(email, tenant, purpose, gen) ==
    LET found == FindByEmail(email, tenant) IN
    PwlAnswer("resend", email, tenant, found # {}, ResendOTPReply(found, tenant \in pwlActive, purpose, gen))

GetUserTenants(email) ==
    LET found == FindByEmailAcrossTenants(email) IN
    PwlAnswer("tenants", email, "", found # {}, GetUserTenantsReply(found))

\* OTPService.VerifyOTP on the handlers' OTPs, in one step: the result, the
\* row matched (0 for none) and the rows as Update leaves them
PwlVerifyOTP(email, code) ==
    LET cand == {i \in DOMAIN pwlOtps : pwlOtps[i].otp.contact = email /\ pwlOtps[i].otp.code = code}
    IN  IF cand = {} THEN [res |-> "invalid_otp", id |-> 0, otps |-> pwlOtps]
        ELSE LET i == CHOOSE i \in cand : \A j \in cand : j <= i
                 d == VerifyOTPDecide(pwlOtps[i].otp, code, now)
             IN  [res |-> d.res, id |-> i,
                  otps |-> IF d.update THEN [pwlOtps EXCEPT ![i].otp = d.ent] ELSE pwlOtps]

PwlVerifyAnswer(op, tenant, v, found, st, body, tokens) ==
    /\ pwlOtps' = v.otps
    /\ pwlOut' = [NoPwlOut EXCEPT !.op = op, !.known = (found # {}), !.status = st,
                                  !.body = body, !.tenant = tenant,
                                  !.user = IF found = {} THEN NoPwlUser
                                           ELSE CHOOSE x \in found : TRUE,
                                  !.otpTenant = IF v.res = "ok" THEN pwlOtps[v.id].tenant ELSE "",
                                  !.tokens = tokens]
    /\ UNCHANGED <<now, pwlActive, pwlSent, otherThanPwl>>

\* User.CanLogin
CanLogin(u) == u.status = "active" /\ u.verified

\* VerifyLogin: the OTP, the user of the tenant asked for, CanLogin, the
\* tenant, then the token pair unless generating it fails
VerifyLogin(email, code, tenant, genErr) ==
    LET v == PwlVerifyOTP(email, code)
        found == FindByEmail(email, tenant)
        u == CHOOSE x \in found : TRUE
    IN  /\ UNCHANGED pwlUsers
        /\ IF v.res # "ok"
           THEN PwlVerifyAnswer("verifyLogin", tenant, v, {}, 401, "invalid or expired code", FALSE)
           ELSE IF found = {}
           THEN PwlVerifyAnswer("verifyLogin", tenant, v, found, 401, "authentication failed", FALSE)
           ELSE IF ~CanLogin(u)
           THEN PwlVerifyAnswer("verifyLogin", tenant, v, found, 403, "account cannot login", FALSE)
           ELSE IF tenant \notin pwlActive
           THEN PwlVerifyAnswer("verifyLogin", tenant, v, found, 403, "organization is not active", FALSE)
           ELSE IF genErr
           THEN PwlVerifyAnswer("verifyLogin", tenant, v, found, 500, "failed to generate token", FALSE)
           ELSE PwlVerifyAnswer("verifyLogin", tenant, v, found, 200, "tokens", TRUE)

\* VerifySignup: the OTP, the user of the tenant asked for, who is activated
\* if pending and marked verified, then saved
VerifySignup(email, code, tenant, saveErr) ==
    LET v == PwlVerifyOTP(email, code)
        found == FindByEmail(email, tenant)
        u == CHOOSE x \in found : TRUE
    IN  IF v.res # "ok"
        THEN /\ PwlVerifyAnswer("verifySignup", tenant, v, {}, 400, v.res, FALSE)
             /\ UNCHANGED pwlUsers
        ELSE IF found = {}
        THEN /\ PwlVerifyAnswer("verifySignup", tenant, v, found, 404, "user not found", FALSE)
             /\ UNCHANGED pwlUsers
        ELSE IF saveErr
        THEN /\ PwlVerifyAnswer("verifySignup", tenant, v, found, 500, "failed to activate account", FALSE)
             /\ UNCHANGED pwlUsers
        ELSE /\ PwlVerifyAnswer("verifySignup", tenant, v, found, 200, "account is now active", FALSE)
             /\ pwlUsers' = (pwlUsers \ {u}) \cup {[u EXCEPT !.status = "active", !.verified = TRUE]}

\* ------------------------------------------- API key text (user.go)
\* strings are sequences of characters
MaxTokenLength == 33
DefaultLive == <<"m", "a", "n", "i", "f", "e", "s", "t", "o", "_", "l", "i", "v", "e">>
DefaultTest == <<"m", "a", "n", "i", "f", "e", "s", "t", "o", "_", "t", "e", "s", "t">>
Prefixes == {DefaultLive, DefaultTest, <<"m", "f">>, <<"a", "_", "b", "_", "c">>}
RandomBytes == {0, 171, 255}
HexDigits == <<"0", "1", "2", "3", "4", "5", "6", "7", "8", "9", "a", "b", "c", "d", "e", "f">>

\* hex.EncodeToString: two digits a byte
RECURSIVE EncodeToString(_)
EncodeToString(bytes) ==
    IF bytes = <<>> THEN <<>>
    ELSE <<HexDigits[(Head(bytes) \div 16) + 1], HexDigits[(Head(bytes) % 16) + 1]>>
             \o EncodeToString(Tail(bytes))

\* fmt.Sprintf("%s_%s", a, b)
Sprintf_s_s(a, b) == a \o <<"_">> \o b

\* strings.SplitN(s, "_", n) for n > 0
RECURSIVE SplitN(_, _)
SplitN(str, n) ==
    LET at == {i \in 1..Len(str) : str[i] = "_"} IN
    IF n = 1 \/ at = {} THEN <<str>>
    ELSE LET i == CHOOSE i \in at : \A j \in at : i <= j
         IN  <<SubSeq(str, 1, i - 1)>> \o SplitN(SubSeq(str, i + 1, Len(str)), n - 1)

NoKeyGen == [op |-> "", live |-> DefaultLive, test |-> DefaultTest, tokenLength |-> 32,
             key |-> <<>>, valid |-> FALSE]

\* the key GenerateAPIKey builds from the bytes rand.Read filled
GeneratedKey(prefix, bytes) == Sprintf_s_s(prefix, EncodeToString(bytes))

\* ValidateAPIKeyFormat under the prefixes cfg holds
ValidateKeyText(key, cfg) ==
    LET parts == SplitN(key, 3) IN
    IF Len(parts) # 3 THEN FALSE
    ELSE /\ \/ Sprintf_s_s(parts[1], parts[2]) = cfg.live
            \/ Sprintf_s_s(parts[1], parts[2]) = cfg.test
         /\ Len(parts[3]) = KeyBodyLen

InitAPIKeyConfig(livePrefix, testPrefix, tokenLength) ==
    /\ keyGen.op = ""
    /\ keyGen' = [NoKeyGen EXCEPT !.op = "Config", !.live = livePrefix, !.test = testPrefix,
                                  !.tokenLength = tokenLength]
    /\ UNCHANGED <<now, otherThanKey>>

\* GenerateAPIKey with the live or the test prefix, every byte read being b,
\* then ValidateAPIKeyFormat on the key; a failed rand.Read gives no key
GenerateAPIKey(live, b, readErr) ==
    /\ keyGen.op \in {"", "Config"}
    /\ LET prefix == IF live THEN keyGen.live ELSE keyGen.test
           key == GeneratedKey(prefix, [i \in 1..keyGen.tokenLength |-> b])
       IN  keyGen' = IF readErr THEN [keyGen EXCEPT !.op = "Failed"]
                     ELSE [keyGen EXCEPT !.op = "Generate", !.key = key,
                                         !.valid = ValidateKeyText(key, keyGen)]
    /\ UNCHANGED <<now, otherThanKey>>

\* ------------------------------------------- GenerateOTPCode (opt.go)
MaxCodeLength == 8
DecimalDigits == <<"0", "1", "2", "3", "4", "5", "6", "7", "8", "9">>

\* %d of a natural number
RECURSIVE Decimal(_)
Decimal(v) ==
    IF v < 10 THEN <<DecimalDigits[v + 1]>>
    ELSE Decimal(v \div 10) \o <<DecimalDigits[(v % 10) + 1]>>

\* fmt.Sprintf("%0*d", width, v): zeros on the left up to the width
Sprintf_0d(width, v) ==
    LET d == Decimal(v) IN
    IF Len(d) >= width THEN d ELSE [i \in 1..(width - Len(d)) |-> "0"] \o d

NoCodeGen == [op |-> "", length |-> 0, value |-> 0, code |-> <<>>]

\* GenerateOTPCode(length) over the bytes rand.Read filled: the three index
\* expressions and the two slices panic out of range
GenerateOTPCodeOf(length, bytes) ==
    IF length < 3 THEN [op |-> "panic", length |-> length, value |-> 0, code |-> <<>>]
    ELSE LET v == bytes[1] * 65536 + bytes[2] * 256 + bytes[3]
             code == Sprintf_0d(length * 2, v)
             cut == SubSeq(code, 1, length * 2)
         IN  IF length * 2 > Len(code) \/ 6 > Len(cut)
             THEN [op |-> "panic", length |-> length, value |-> 0, code |-> <<>>]
             ELSE [op |-> "code", length |-> length, value |-> v, code |-> SubSeq(cut, 1, 6)]

GenerateOTPCode(length, b0, b1, b2, readErr) ==
    /\ codeGen' = IF readErr THEN [op |-> "error", length |-> length, value |-> 0, code |-> <<>>]
                  ELSE GenerateOTPCodeOf(length, [i \in 1..length |->
                                            IF i = 1 THEN b0 ELSE IF i = 2 THEN b1 ELSE b2])
    /\ UNCHANGED <<now, otherThanCode>>

\* ======================================================= specifications
\* nothing stored, no call made
SMStart ==
    /\ memStates = [s \in Tokens |-> NoEntry]
    /\ redisKeys = [s \in Tokens |-> NoKey]
    /\ memRes = NoRes
    /\ redisRes = NoRes
    /\ smLast = NoSMLast
    /\ smFresh = [s \in Tokens |-> NoFresh]

SMCStart ==
    /\ smMu = "free"
    /\ smPc = [p \in Procs |-> "idle"]
    /\ smCall = [p \in Procs |-> NoSMCall]
    /\ smGot = [b \in Backends |-> [s \in Tokens |-> 0]]
    /\ smcLast = NoSMCLast

\* no invitation yet
InvStart ==
    /\ invs = <<>>
    /\ invAccepts = <<>>
    /\ invLast = NoInvLast

\* a tenant without users, no request in flight
RegStart ==
    /\ tenantRow = NoTenant
    /\ users = {}
    /\ nextUid = 1
    /\ nReq = 0
    /\ rpc = [p \in Procs |-> "idle"]
    /\ rcall = [p \in Procs |-> NoRCall]
    /\ rLast = NoRCall

\* no HasScope call
TokStart ==
    /\ rtoks = <<>> /\ sessions = <<>> /\ secretKey = 1
    /\ loggedOut = [toks |-> {}, sess |-> {}] /\ tokLast = NoTokLast

JwtStart == jwtIn = [user |-> "u1", tenant |-> "t1", scopes |-> <<>>] /\ jwtTok = NoJwt /\ jwtRes = NoJwtRes

ReapStart ==
    reaperPc = "idle" /\ rstep = 0 /\ tickPending = FALSE /\ cancelled = FALSE /\ rstat = NoRStat

PwlStart ==
    pwlUsers = {} /\ pwlActive = {} /\ pwlOtps = <<>> /\ pwlSent = 0 /\ pwlOut = NoPwlOut

KeyStart == keyGen = NoKeyGen
CodeStart == codeGen = NoCodeGen
ScopeStart ==
    /\ scopeIn = [S |-> <<>>, r |-> <<>>]
    /\ scopeOut = NoScopeOut

\* no API key, no request handled
AuthStart ==
    /\ apiKeys = {}
    /\ authLast = NoAuthLast

\* no OTP issued, no call in flight
OTPStart ==
    /\ otps = <<>>
    /\ successes = <<>>
    /\ pc = [p \in Procs |-> "idle"]
    /\ call = [p \in Procs |-> NoCall]
    /\ last = NoCall

InitOTP ==
    /\ now = 0
    /\ cfgMaxAttempts \in CfgMaxAttempts
    /\ OTPStart
    /\ smTTL = 0 /\ SMStart /\ SMCStart
    /\ InvStart /\ RegStart /\ AuthStart /\ ScopeStart /\ TokStart /\ JwtStart /\ ReapStart /\ PwlStart /\ KeyStart /\ CodeStart

NextOTP ==
    \/ Tick
    \/ \E p \in Procs : GenCheck(p)
    \/ \E p \in Procs : GenCreate(p)
    \/ \E p \in Procs : VerifyLookup(p)
    \/ \E p \in Procs : VerifyUpdate(p)

SpecOTP == InitOTP /\ [][NextOTP]_vars

\* the state store, one caller driving both backends with the same calls
InitSM ==
    /\ now = 0
    /\ smTTL \in StateTTLs
    /\ SMStart /\ SMCStart
    /\ cfgMaxAttempts = 0 /\ OTPStart
    /\ InvStart /\ RegStart /\ AuthStart /\ ScopeStart /\ TokStart /\ JwtStart /\ ReapStart /\ PwlStart /\ KeyStart /\ CodeStart

NextSM ==
    \/ Tick
    \/ \E s \in Tokens, data \in Payloads : SMStoreState(s, data)
    \/ \E s \in Tokens : SMValidateState(s)
    \/ \E s \in Tokens : SMGetStateData(s)

SpecSM == InitSM /\ [][NextSM]_vars

\* the state store under concurrent GetStateData calls
InitSMC == InitSM

NextSMC ==
    \/ Tick
    \/ \E s \in RaceTokens, data \in RacePayloads : CStoreState(s, data)
    \/ \E p \in Procs, s \in RaceTokens : CMemCall(p, s)
    \/ \E p \in Procs : CMemLock(p)
    \/ \E p \in Procs : CMemBody(p)
    \/ \E p \in Procs, s \in RaceTokens : CRedisGetDel(p, s)
    \/ \E p \in Procs : CRedisReturn(p)

SpecSMC == InitSMC /\ [][NextSMC]_vars

\* invitations
InitInv ==
    /\ now = 0
    /\ InvStart /\ RegStart /\ AuthStart /\ ScopeStart /\ TokStart /\ JwtStart /\ ReapStart /\ PwlStart /\ KeyStart /\ CodeStart
    /\ cfgMaxAttempts = 0 /\ OTPStart
    /\ smTTL = 0 /\ SMStart /\ SMCStart

NextInv ==
    \/ Tick
    \/ \E tenant \in InvTenants, email \in InvEmails : InvCreate(tenant, email)
    \/ \E k \in 1..MaxInvs, userID \in Users : InvAccept(k, userID)
    \/ \E k \in 1..MaxInvs : InvRevoke(k)
    \/ \E found \in SUBSET (1..MaxInvs) : InvCleanup(found)

SpecInv == InitInv /\ [][NextInv]_vars

\* invitations of two tenants, asked for under either, within their
\* lifetime
InitInvT ==
    /\ now = 0
    /\ InvStart /\ RegStart /\ AuthStart /\ ScopeStart /\ TokStart /\ JwtStart /\ ReapStart /\ PwlStart /\ KeyStart /\ CodeStart
    /\ cfgMaxAttempts = 0 /\ OTPStart
    /\ smTTL = 0 /\ SMStart /\ SMCStart

NextInvT ==
    \/ \E tenant \in AllTenants, email \in InvEmails : InvCreate(tenant, email)
    \/ \E k \in 1..MaxInvs, userID \in Users : InvAccept(k, userID)
    \/ \E k \in 1..MaxInvs, tenant \in AllTenants : GetInvitationByID(k, tenant)
    \/ \E k \in 1..MaxInvs, tenant \in AllTenants : RevokeInvitation(k, tenant)
    \/ \E k \in 1..MaxInvs, tenant \in AllTenants : DeleteInvitation(k, tenant)

SpecInvT == InitInvT /\ [][NextInvT]_vars

\* the tenants the runs start from: the BASIC plan, no user yet
StartTenants ==
    {[active |-> TRUE, plan |-> "BASIC", max |-> getMaxUsersForPlan("BASIC"),
      cur |-> 0, expiresAt |-> x] : x \in TenantExpiries}

\* registration: one invitation has been created at time 0; the requests
\* that create users run interleaved with the tenant's administration
InitReg ==
    /\ now = 0
    /\ invs = <<NewInvitation("a@x.com", 0)>>
    /\ invAccepts = <<0>>
    /\ invLast = NoInvLast
    /\ tenantRow \in StartTenants
    /\ users = {}
    /\ nextUid = 1
    /\ nReq = 0
    /\ rpc = [p \in Procs |-> "idle"]
    /\ rcall = [p \in Procs |-> NoRCall]
    /\ rLast = NoRCall
    /\ AuthStart /\ ScopeStart /\ TokStart /\ JwtStart /\ ReapStart /\ PwlStart /\ KeyStart /\ CodeStart
    /\ cfgMaxAttempts = 0 /\ OTPStart
    /\ smTTL = 0 /\ SMStart /\ SMCStart

NextReg ==
    \/ Tick
    \/ \E p \in Procs, k \in 0..Len(invs), email \in RegEmails : OAuthStart(p, k, email)
    \/ \E p \in Procs : OAuthSave(p)
    \/ \E p \in Procs : OAuthAddUser(p)
    \/ \E p \in Procs : OAuthReload(p)
    \/ \E p \in Procs : OAuthAccept(p)
    \/ \E p \in Procs, k \in 0..Len(invs), email \in RegEmails : SignupStart(p, k, email)
    \/ \E p \in Procs : SignupSave(p)
    \/ \E p \in Procs : SignupAddUser(p)
    \/ \E p \in Procs : SignupAccept(p)
    \/ \E p \in Procs, email \in RegEmails : CreateUserStart(p, email)
    \/ \E p \in Procs : CreateUserSave(p)
    \/ \E p \in Procs : CreateUserAddUser(p)
    \/ \E u \in users : DeleteUser(u.id)
    \/ \E plan \in Plans : UpgradeTenantPlan(plan)
    \/ \E b \in BOOLEAN : SetTenantActive(b)
    \/ \E k \in DOMAIN invs : RegRevoke(k)
    \/ RegCleanup

SpecReg == InitReg /\ [][NextReg]_vars

\* invitations: CreateInvitation requests interleaved with each other, with
\* revocation, expiry and the signups that accept
InitInvite ==
    /\ now = 0
    /\ InvStart
    /\ tenantRow \in StartTenants
    /\ users = {}
    /\ nextUid = 1
    /\ nReq = 0
    /\ rpc = [p \in Procs |-> "idle"]
    /\ rcall = [p \in Procs |-> NoRCall]
    /\ rLast = NoRCall
    /\ AuthStart /\ ScopeStart /\ TokStart /\ JwtStart /\ ReapStart /\ PwlStart /\ KeyStart /\ CodeStart
    /\ cfgMaxAttempts = 0 /\ OTPStart
    /\ smTTL = 0 /\ SMStart /\ SMCStart

NextInvite ==
    \/ Tick
    \/ \E p \in Procs, email \in InvitedEmails : CreateInvitationCheck(p, email)
    \/ \E p \in Procs : CreateInvitationSave(p)
    \/ \E p \in Procs, k \in DOMAIN invs : SignupStart(p, k, invs[k].email)
    \/ \E p \in Procs : SignupSave(p)
    \/ \E p \in Procs : SignupAddUser(p)
    \/ \E p \in Procs : SignupAccept(p)
    \/ \E k \in DOMAIN invs : RegRevoke(k)
    \/ RegCleanup

SpecInvite == InitInvite /\ [][NextInvite]_vars

\* the authenticator: requests beside the creation and revocation of keys
InitAuth ==
    /\ now = 0
    /\ AuthStart /\ ScopeStart /\ TokStart /\ JwtStart /\ ReapStart /\ PwlStart /\ KeyStart /\ CodeStart
    /\ InvStart /\ RegStart
    /\ cfgMaxAttempts = 0 /\ OTPStart
    /\ smTTL = 0 /\ SMStart /\ SMCStart

NextAuth ==
    \/ Tick
    \/ \E req \in Requests : Authenticate(req)
    \/ \E c \in KeySecrets, hasExpiry \in BOOLEAN : CreateAPIKey(c, hasExpiry)
    \/ \E k \in apiKeys : RevokeAPIKey(k.hash)

SpecAuth == InitAuth /\ [][NextAuth]_vars

\* the scope matchers on every scope list and required scope
InitScope ==
    /\ now = 0
    /\ scopeIn \in [S : ScopeLists, r : ScopeStrings(MaxScopeLen + 1)]
    /\ scopeOut = NoScopeOut
    /\ InvStart /\ RegStart
    /\ AuthStart /\ TokStart /\ JwtStart /\ ReapStart /\ PwlStart /\ KeyStart /\ CodeStart
    /\ cfgMaxAttempts = 0 /\ OTPStart
    /\ smTTL = 0 /\ SMStart /\ SMCStart

NextScope == CheckScope

SpecScope == InitScope /\ [][NextScope]_vars

\* refresh tokens and sessions: logins, refreshes, logouts and restarts
InitTok ==
    /\ now = 0
    /\ rtoks = <<>> /\ sessions = <<>> /\ secretKey = 1
    /\ loggedOut = [toks |-> {}, sess |-> {}] /\ tokLast = NoTokLast
    /\ AuthStart /\ ScopeStart /\ JwtStart /\ ReapStart /\ PwlStart /\ KeyStart /\ CodeStart
    /\ InvStart /\ RegStart
    /\ cfgMaxAttempts = 0 /\ OTPStart
    /\ smTTL = 0 /\ SMStart /\ SMCStart

NextTok ==
    \/ Tick
    \/ \E u \in TokUsers, sessErr \in BOOLEAN : IssueTokens(u, sessErr)
    \/ \E i \in 0..MaxRToks, userOK \in BOOLEAN : RefreshToken(i, userOK)
    \/ \E u \in TokUsers, tokErr \in BOOLEAN, sessErr \in BOOLEAN : Logout(u, tokErr, sessErr)
    \/ \E k \in SecretKeys : NewJWTServiceFromConfig(k)

SpecTok == InitTok /\ [][NextTok]_vars

\* access tokens: one is issued, perhaps altered, and presented over time
InitJwt ==
    /\ now = 0
    /\ jwtIn \in [user : JwtUsers, tenant : JwtTenants, scopes : ScopeClaims]
    /\ jwtTok = NoJwt /\ jwtRes = NoJwtRes
    /\ AuthStart /\ ScopeStart /\ TokStart /\ ReapStart /\ PwlStart /\ KeyStart /\ CodeStart
    /\ InvStart /\ RegStart
    /\ cfgMaxAttempts = 0 /\ OTPStart
    /\ smTTL = 0 /\ SMStart /\ SMCStart

NextJwt ==
    \/ Tick
    \/ GenerateAccessToken
    \/ \E kind \in {"claims", "alg", "sig"} : TamperToken(kind)
    \/ PresentToken

SpecJwt == InitJwt /\ [][NextJwt]_vars

\* the reaper from its start to its end
InitReap ==
    /\ now = 0
    /\ ReapStart
    /\ AuthStart /\ ScopeStart /\ TokStart /\ JwtStart /\ PwlStart /\ KeyStart /\ CodeStart
    /\ InvStart /\ RegStart
    /\ cfgMaxAttempts = 0 /\ OTPStart
    /\ smTTL = 0 /\ SMStart /\ SMCStart

NextReap ==
    \/ Tick
    \/ ReaperStart
    \/ \E err \in BOOLEAN : runCleanup(err)
    \/ TickerFire
    \/ SelectTick
    \/ SelectDone
    \/ Cancel

SpecReap == InitReap /\ [][NextReap]_vars

\* the passwordless lookups over every small users table
InitPwl ==
    /\ now = 0
    /\ pwlUsers \in {U \in SUBSET PwlUserRows :
                        /\ Cardinality(U) <= 2
                        /\ \A u, v \in U : u.tenant = v.tenant => u = v}
    /\ pwlActive \in SUBSET PwlTenants
    /\ pwlOtps = <<>> /\ pwlSent = 0 /\ pwlOut = NoPwlOut
    /\ AuthStart /\ ScopeStart /\ TokStart /\ JwtStart /\ ReapStart /\ KeyStart /\ CodeStart
    /\ InvStart /\ RegStart
    /\ cfgMaxAttempts = 0 /\ OTPStart
    /\ smTTL = 0 /\ SMStart /\ SMCStart

NextPwl ==
    \/ \E e \in PwlEmails, t \in PwlTenants, gen \in GenOutcomes : InitiateLogin(e, t, gen)
    \/ \E e \in PwlEmails, t \in PwlTenants, purpose \in {"signup", "login"}, gen \in GenOutcomes :
          ResendOTP(e, t, purpose, gen)
    \/ \E e \in PwlEmails : GetUserTenants(e)

SpecPwl == InitPwl /\ [][NextPwl]_vars

\* the passwordless handlers with the verifications that end their flows;
\* MaxAttempts is 2, the least that lets a code be verified.  Tenant t1 is
\* active and holds any user or none; tenant t2 may be suspended and holds
\* no user, one awaiting verification or one established with OTP
InitPwlFlow ==
    /\ now = 0
    /\ pwlUsers \in {U \in SUBSET PwlUserRows :
                        /\ Cardinality(U) <= 2
                        /\ \A u, v \in U : u.tenant = v.tenant => u = v
                        /\ \A u \in U : u.tenant = "t2" => u.otp /\ (u.status = "active" => u.verified)}
    /\ pwlActive \in {PwlTenants, {"t1"}}
    /\ pwlOtps = <<>> /\ pwlSent = 0 /\ pwlOut = NoPwlOut
    /\ AuthStart /\ ScopeStart /\ TokStart /\ JwtStart /\ ReapStart /\ KeyStart /\ CodeStart
    /\ InvStart /\ RegStart
    /\ cfgMaxAttempts = 2 /\ OTPStart
    /\ smTTL = 0 /\ SMStart /\ SMCStart

NextPwlFlow ==
    \/ \E e \in PwlEmails, t \in PwlTenants, gen \in GenOutcomes : InitiateLogin(e, t, gen)
    \/ \E e \in PwlEmails, t \in PwlTenants, purpose \in {"signup", "login"}, gen \in GenOutcomes :
          ResendOTP(e, t, purpose, gen)
    \/ \E e \in PwlEmails, code \in 0..MaxPwlOtps, t \in PwlTenants, genErr \in BOOLEAN :
          VerifyLogin(e, code, t, genErr)
    \/ \E e \in PwlEmails, code \in 0..MaxPwlOtps, t \in PwlTenants, saveErr \in BOOLEAN :
          VerifySignup(e, code, t, saveErr)

SpecPwlFlow == InitPwlFlow /\ [][NextPwlFlow]_vars

\* API keys generated and validated under a configuration
InitKey ==
    /\ now = 0
    /\ KeyStart
    /\ AuthStart /\ ScopeStart /\ TokStart /\ JwtStart /\ ReapStart /\ PwlStart /\ CodeStart
    /\ InvStart /\ RegStart
    /\ cfgMaxAttempts = 0 /\ OTPStart
    /\ smTTL = 0 /\ SMStart /\ SMCStart

NextKey ==
    \/ \E l \in Prefixes, t \in Prefixes, n \in 0..MaxTokenLength : InitAPIKeyConfig(l, t, n)
    \/ \E live \in BOOLEAN, b \in RandomBytes, readErr \in BOOLEAN : GenerateAPIKey(live, b, readErr)

SpecKey == InitKey /\ [][NextKey]_vars

\* OTP codes generated for every configured length
InitCode ==
    /\ now = 0
    /\ CodeStart /\ KeyStart
    /\ AuthStart /\ ScopeStart /\ TokStart /\ JwtStart /\ ReapStart /\ PwlStart
    /\ InvStart /\ RegStart
    /\ cfgMaxAttempts = 0 /\ OTPStart
    /\ smTTL = 0 /\ SMStart /\ SMCStart

NextCode ==
    \E length \in 0..MaxCodeLength, b0 \in RandomBytes, b1 \in RandomBytes, b2 \in RandomBytes,
       readErr \in BOOLEAN : GenerateOTPCode(length, b0, b1, b2, readErr)

SpecCode == InitCode /\ [][NextCode]_vars

\* ------------------------------------------------------------ OTP claims

\* C1 as stated: a VerifyOTP call with the correct code that finds its row at
\* the ceiling (Attempts = MaxAttempts) fails with "too many attempts" and the
\* row stays unverified.
C1_CeilingFailsTooMany ==
    (last.op = "verify" /\ last.id # 0 /\ last.seenAtCeiling)
        => (last.res = "too_many_attempts" /\ ~otps[last.id].verified)

\* C1 as amended: such a call fails and the row stays unverified; the error is
\* "too many attempts" while the row is unexpired and "expired" once it is
\* past its expiry, which VerifyOTP checks first.
C1_CeilingFails ==
    (last.op = "verify" /\ last.id # 0 /\ last.seenAtCeiling)
        => /\ last.res = (IF last.seenExpired THEN "expired" ELSE "too_many_attempts")
           /\ ~otps[last.id].verified

\* C1 witness: a correct code was presented for an unexpired row at its
\* ceiling and was turned down.
C1_Witness ==
    /\ last.op = "verify" /\ last.id # 0
    /\ last.seenAtCeiling /\ ~last.seenExpired
    /\ last.res = "too_many_attempts"

\* C2 as stated: once a row for the contact and code has been verified, every
\* later VerifyOTP call for that contact and code is rejected as "already used".
C2_LaterCallsAlreadyUsed ==
    (last.op = "verify" /\ last.prevVerified) => last.res = "already_used"

\* C2 as amended: a VerifyOTP call that resolves to a row already verified
\* never succeeds: it is rejected as "already used" while the row is
\* unexpired and as "expired" afterwards.
C2_VerifiedRowRejected ==
    (last.op = "verify" /\ last.id # 0 /\ last.seenVerified)
        => last.res = (IF last.seenExpired THEN "expired" ELSE "already_used")

\* C2 witness: a second call on a verified, unexpired row was rejected as
\* "already used".
C2_Witness ==
    /\ last.op = "verify" /\ last.id # 0 /\ last.seenVerified
    /\ ~last.seenExpired /\ last.res = "already_used"
    /\ successes[last.id] = 1

\* C3: a VerifyOTP call that presents a wrong code for a contact holding an
\* issued, unexpired, unverified code raises that code's attempt counter by
\* exactly one.
C3_WrongCodeCounts ==
    [][(last' # last /\ last'.op = "verify")
          => \A t \in last'.tgt : otps'[t[1]].attempts = t[2] + 1]_vars

\* C4: an OTP is consumed at most once: at most one VerifyOTP call returns a
\* given row as verified, under every interleaving.
C4_ConsumedAtMostOnce ==
    \A i \in DOMAIN successes : successes[i] <= 1

\* C5: a GenerateOTP call made while a code of the contact and purpose is
\* valid and younger than the rate-limit window fails with "too many
\* requests", persists nothing and sends nothing.
C5_RateLimited ==
    /\ \A p \in Procs : pc[p] = "g_create" => ~call[p].pre
    /\ (last.op = "generate" /\ last.pre)
          => (last.res = "too_many_requests" /\ ~last.wrote /\ ~last.sent)

\* C6: the rate-limit check is not atomic with the insert: a call that has
\* passed the check persists its code whatever was persisted since, so two
\* concurrent calls both persist a code inside one window (C6_Witness).
C6_CheckThenWrite ==
    [][\A p \in Procs : (pc[p] = "g_create" /\ pc'[p] = "idle")
          => (Len(otps') = Len(otps) + 1 /\ last'.wrote)]_vars

\* C6 witness: two rows of one contact and purpose, the second persisted
\* inside the window of the first while the first was valid, and both calls
\* have returned.
C6_Witness ==
    \E i, j \in DOMAIN otps :
        /\ i < j
        /\ otps[i].contact = otps[j].contact /\ otps[i].purpose = otps[j].purpose
        /\ otps[j].createdAt - otps[i].createdAt < RateLimitWindow
        /\ IsValid(otps[i], otps[j].createdAt)
        /\ \A p \in Procs : pc[p] = "idle"

\* C7: on either backend the first GetStateData of a stored token, made while
\* the token's age is within the TTL, returns the stored payload without
\* error, and every GetStateData of that token that is not the first one since
\* the store (or finds none stored) fails with "invalid state".
C7_OneTimeRead ==
    smLast.op = "GetStateData" =>
        /\ (smLast.first /\ smLast.age <= smTTL) =>
                /\ memRes.err = "nil" /\ redisRes.err = "nil"
                /\ PayloadContent(memRes.data) = PayloadContent(smLast.stored)
                /\ PayloadContent(redisRes.data) = PayloadContent(smLast.stored)
        /\ ~smLast.first =>
                /\ memRes.err = "invalid_state" /\ redisRes.err = "invalid_state"
                /\ memRes.data = {} /\ redisRes.data = {}

\* C7 witness: a token was stored and read once with its payload, and a
\* second GetStateData of it has just failed on both backends.
C7_Witness ==
    /\ smLast.op = "GetStateData"
    /\ ~smLast.first
    /\ smFresh[smLast.state].got
    /\ smLast.stored # {}
    /\ memRes.err = "invalid_state" /\ redisRes.err = "invalid_state"

\* C8: of the GetStateData calls made on one backend for one stored token,
\* whatever their interleaving, at most one obtains the payload; a call that
\* reads after another one obtained it fails with "invalid state".
C8_AtMostOnePayload ==
    /\ \A b \in Backends, s \in Tokens : smGot[b][s] <= 1
    /\ smcLast.lostRace => smcLast.err = "invalid_state"
    /\ \A p \in Procs : (smPc[p] = "r_reply" /\ smCall[p].lostRace) => smCall[p].isNil

\* C8 witness: two handlers are inside GetStateData for the same token at the
\* same time; one holds the payload, the other an empty reply.
C8_Witness ==
    \E p, q \in Procs :
        /\ p # q
        /\ smPc[p] = "r_reply" /\ smPc[q] = "r_reply"
        /\ smCall[p].state = smCall[q].state
        /\ ~smCall[p].isNil
        /\ smCall[q].isNil /\ smCall[q].lostRace

\* C9 (as stated): after every call of every sequence, at every clock value,
\* the in-memory and the Redis backend have returned the same result.
C9_SameResults ==
    /\ memRes.err = redisRes.err
    /\ memRes.valid = redisRes.valid
    /\ PayloadContent(memRes.data) = PayloadContent(redisRes.data)

\* C10 (as stated): Accept() on an ACCEPTED or REVOKED invitation fails with
\* the business error of that status and leaves the invitation as it was; no
\* invitation is accepted twice.
C10_FailsWithStatusError ==
    /\ \A k \in DOMAIN invs : invAccepts[k] <= 1
    /\ (invLast.op = "Accept" /\ invLast.before.status \in {"ACCEPTED", "REVOKED"}) =>
            /\ \/ invLast.err = [code |-> "INVALID", status |-> invLast.before.status]
               \/ invLast.err.code = "ALREADY_" \o invLast.before.status
            /\ invs[invLast.id] = invLast.before

\* C10 (amended): Accept() on an ACCEPTED or REVOKED invitation fails and
\* leaves the invitation as it was, and no invitation is accepted twice; the
\* error is "invitation expired" when the invitation is past its expiry and
\* otherwise "invitation invalid" carrying the status.
C10_FailsUnchanged ==
    /\ \A k \in DOMAIN invs : invAccepts[k] <= 1
    /\ (invLast.op = "Accept" /\ invLast.before.status \in {"ACCEPTED", "REVOKED"}) =>
            /\ invLast.err = IF invLast.expired
                             THEN [code |-> "EXPIRED", status |-> ""]
                             ELSE [code |-> "INVALID", status |-> invLast.before.status]
            /\ invs[invLast.id] = invLast.before

\* C10 witness: a second Accept() on an accepted, unexpired invitation has
\* just been refused.
C10_Witness ==
    /\ invLast.op = "Accept"
    /\ invLast.before.status = "ACCEPTED"
    /\ ~invLast.expired
    /\ invLast.err.code = "INVALID"
    /\ invAccepts[invLast.id] = 1

\* C11 (as stated): ACCEPTED, EXPIRED and REVOKED are terminal: no step of
\* Accept, Revoke, MarkAsExpired or the cleanup changes the status of an
\* invitation that is in one of them.
C11_TerminalStates ==
    [][\A k \in DOMAIN invs :
          invs[k].status \in {"ACCEPTED", "EXPIRED", "REVOKED"}
              => invs'[k].status = invs[k].status]_vars

\* C12 (as stated): after any interleaving of CreateInvitation, revoke,
\* accept and expiry there is at most one PENDING invitation for an email
\* within the tenant.
C12_OnePendingPerEmail ==
    \A e \in RegEmails :
        Cardinality({k \in DOMAIN invs :
            invs[k].email = e /\ invs[k].tenant = "t1" /\ invs[k].status = "PENDING"}) <= 1

\* C13 (as stated): an invitation moves to ACCEPTED, in the OAuth or the OTP
\* signup flow, only if at that moment it is PENDING and unexpired and the
\* email of the registering identity is the invitation's.
C13_AcceptOnlyWhenValid ==
    [][\A k \in DOMAIN invs :
          (invs[k].status # "ACCEPTED" /\ invs'[k].status = "ACCEPTED")
              => /\ invs[k].status = "PENDING"
                 /\ ~Inv_IsExpired(invs[k], now)
                 /\ \E p \in Procs : /\ rpc[p] \in {"o_accept", "s_accept"}
                                     /\ rcall[p].inv = k
                                     /\ rcall[p].email = invs[k].email]_vars

\* C14 (as stated): every OAuth callback that completes successfully leaves
\* the invitation of its state payload ACCEPTED, whether it created the
\* account or linked an existing one.
C14_CallbackAccepts ==
    (rLast.op = "oauth" /\ rLast.res = "ok") => invs[rLast.inv].status = "ACCEPTED"

\* C15: in every reachable state, concurrent OAuth callbacks, OTP signups
\* and direct creations for the same email included, the tenant has at most
\* one user record per email.
C15_OneUserPerEmail ==
    \A u, v \in users : u.email = v.email => u = v

\* a request lost its insert to the unique constraint: another request had
\* inserted a user with its email after it looked the email up
C15_Witness ==
    rLast.res = "save_failed" /\ users # {}

C19_ExactlyOnePath ==
    authLast.handled =>
        /\ authLast.ranKey # authLast.ranJWT
        /\ authLast.hasKeyCred => (authLast.ranKey /\ ~authLast.ranJWT)
        /\ ~authLast.hasKeyCred => (authLast.ranJWT /\ ~authLast.ranKey)

\* a request whose API key failed validation: it got no context and the
\* token path did not run
C19_Witness ==
    authLast.handled /\ authLast.hasKeyCred /\ authLast.ranKey /\ ~authLast.granted

C21_HasScope ==
    LET S == scopeIn.S
        r == scopeIn.r
        NamespaceGrants ==
            \E i \in DOMAIN S : \E n \in 2..Len(r) :
                r[n] = ":" /\ S[i] = SubSeq(r, 1, n - 1) \o <<":", "*">>
    IN  scopeOut.done =>
            (scopeOut.user <=>
                \/ \E i \in DOMAIN S : S[i] = r
                \/ \E i \in DOMAIN S : S[i] = <<"*">>
                \/ NamespaceGrants)

\* the list holds j:* alone: jj:j was asked and refused
C21_Witness ==
    /\ scopeOut.done
    /\ scopeIn.S = << <<"j", ":", "*">> >>
    /\ scopeIn.r = <<"j", "j", ":", "j">>
    /\ ~scopeOut.user

\* C22 (as stated): for every scope list and required scope, namespace
\* wildcards included, APIKey.HasScope returns what User.HasScope returns.
C22_MatchersAgree ==
    scopeOut.done => (scopeOut.key = scopeOut.user)

\* ------------------------------------------------ refresh and logout claims
\* C23: a refresh request yields a new access token only if the presented
\* refresh token's signature is valid and its database row is neither revoked
\* nor expired.
C23_RefreshNeedsSignatureAndRow ==
    (tokLast.op = "refresh" /\ tokLast.granted) => (tokLast.sigValid /\ tokLast.rowLive)

\* C24: once Logout has reported success for a principal, every refresh token
\* and session that principal had is revoked, and none of those refresh tokens
\* obtains an access token afterwards.
C24_LogoutRevokesAll ==
    /\ \A i \in loggedOut.toks : rtoks[i].revoked
    /\ \A i \in loggedOut.sess : sessions[i].revoked
    /\ (tokLast.op = "refresh" /\ tokLast.covered) => ~tokLast.granted

C27_ReaperSchedule ==
    /\ reaperPc # "idle" => rstat.passes = 1 + rstat.taken
    /\ ~rstat.late

\* C28: an error from a cleanup step (refresh tokens, sessions, password-reset
\* tokens) stops neither the remaining steps of that pass nor later passes;
\* only cancellation ends the loop.
C28_ErrorsDoNotStop ==
    /\ rstat.steps = CleanupSteps * rstat.done + (IF reaperPc = "pass" THEN rstep - 1 ELSE 0)
    /\ reaperPc = "stopped" => cancelled
    /\ (reaperPc = "select" /\ tickPending /\ rstat.passes < MaxPasses) => ENABLED SelectTick

\* a step of an earlier pass failed, that pass and a later one ran all steps
C28_Witness == rstat.failed /\ rstat.done >= 2 /\ ~cancelled

\* ------------------------------------------------- passwordless claims
\* C29: login initiation, OTP resend and tenant lookup for an unknown email
\* answer with a success-shaped generic response, create no OTP and send no
\* notification.
C29_UnknownEmail ==
    (pwlOut.op # "none" /\ ~pwlOut.known) =>
        /\ pwlOut.status = 200
        /\ pwlOut.body = (IF pwlOut.op = "tenants" THEN {} ELSE "if registered, a code is sent")
        /\ ~pwlOut.issued /\ ~pwlOut.sent

\* a login was initiated for an email unknown in a tenant that has a user
C29_Witness == pwlOut.op = "login" /\ ~pwlOut.known /\ pwlUsers # {} /\ Len(pwlOtps) > 0

\* ------------------------------------------------ signup of a known email
\* C30: InitiateSignup never creates a second user record when a user exists
\* for the invitation's email and tenant: an OAuth-only user gets the OTP flag
\* enabled on the existing record, and a user with OTP enabled gets a conflict
\* response with no state change.
C30_SignupExistingUser ==
    [][/\ \A u, v \in users' : u.email = v.email => u = v
       /\ (/\ rLast' # rLast /\ rLast'.op = "signup"
           /\ rLast'.existing0 /\ rLast'.invOk0 /\ rLast'.active0)
          => LET e == invs[rLast'.inv].email IN
             /\ rLast'.otp0 =>
                   /\ rLast'.res = "conflict"
                   /\ users' = users /\ tenantRow' = tenantRow /\ invs' = invs
             /\ (~rLast'.otp0 /\ rLast'.oauth0) =>
                   /\ rLast'.res = "ok" /\ rLast'.linked
                   /\ \A u \in users' : u.email = e => u.otp
                   /\ {u.id : u \in users'} = {u.id : u \in users}]_vars

\* a signup with an acceptable invitation met an OAuth-only user and linked
C30_Witness ==
    /\ rLast.op = "signup" /\ rLast.invOk0 /\ rLast.active0
    /\ rLast.oauth0 /\ ~rLast.otp0 /\ rLast.linked

\* ------------------------------------------------ tenant isolation claims
\* C31: a get, revoke or delete request for an invitation made under a tenant
\* other than the invitation's own returns not-found, shows nothing of the
\* invitation and leaves it as it was.
C31_OtherTenantNotFound ==
    (/\ invLast.op \in {"Get", "Revoke", "Delete"}
     /\ invLast.before # NoInv /\ invLast.before.tenant # invLast.tenant)
        => /\ invLast.err = NotFound
           /\ invLast.shown = NoInv
           /\ invLast.after = invLast.before

\* tenant t2 asked to revoke a pending invitation of tenant t1
C31_Witness ==
    /\ invLast.op = "Revoke" /\ invLast.tenant = "t2"
    /\ invLast.before # NoInv /\ invLast.before.tenant = "t1"
    /\ invLast.before.status = "PENDING"

\* ------------------------------------------------- user lifecycle claims
\* C32: no step removes a user record, other than the compensating deletion
\* of the user an OAuth registration has just created and whose quota
\* increment failed.
C32_NoHardDelete ==
    [][\A u \in users : (\A v \in users' : v.id # u.id) =>
          \E p \in DOMAIN rpc : /\ rpc[p] = "o_add"
                                /\ rcall[p].op = "oauth"
                                /\ rcall[p].uid = u.id]_vars

\* ------------------------------------------------------ API key claims
\* C33: every key GenerateAPIKey produces with the configured live or test
\* prefix is accepted by ValidateAPIKeyFormat, whatever prefixes and token
\* length InitAPIKeyConfig set.
C33_GeneratedKeysValid ==
    keyGen.op = "Generate" => keyGen.valid

C33_Reached ==
    keyGen.op = "Generate" /\ keyGen.tokenLength = 32 /\ keyGen.valid

\* ------------------------------------------------------ OTP code claims
\* C34: GenerateOTPCode(n) returns exactly n decimal digits, for every
\* n >= 1.
C34_ExactlyNDigits ==
    (codeGen.op \in {"code", "panic"} /\ codeGen.length >= 1)
        => /\ codeGen.op = "code"
           /\ Len(codeGen.code) = codeGen.length
           /\ \A i \in 1..Len(codeGen.code) :
                  \E d \in 1..10 : codeGen.code[i] = DecimalDigits[d]

\* ------------------------------------------------- OTP verification claims
\* C35: a VerifyOTP call with the correct code succeeds whenever the row it
\* finds is unexpired, unverified and has had fewer attempts than its
\* MaxAttempts (the counter never exceeds the ceiling, so "not at the
\* ceiling" is "below it"), for every MaxAttempts >= 1.
C35_CorrectCodeSucceeds ==
    (/\ last.op = "verify" /\ last.id # 0
     /\ otps[last.id].code = last.code /\ otps[last.id].maxAttempts >= 1
     /\ ~last.seenExpired /\ ~last.seenVerified /\ ~last.seenAtCeiling)
        => last.res = "ok"

\* ------------------------------------------------ passwordless flow claims
\* C36: a user whose OTP flag is disabled never obtains a token pair through
\* the passwordless endpoints, whatever sequence of InitiateLogin, ResendOTP
\* and VerifyLogin is run.
C36_NoTokensWithoutOTPFlag ==
    pwlOut.tokens => pwlOut.user.otp

\* C37: an OTP issued in a passwordless flow for one tenant does not complete
\* VerifySignup or VerifyLogin for a user of another tenant with the same
\* email.
C37_OtpBoundToTenant ==
    (pwlOut.op \in {"verifyLogin", "verifySignup"} /\ pwlOut.status = 200)
        => pwlOut.otpTenant = pwlOut.tenant

\* ------------------------------------------------------ token issuing claims
\* C38: a token pair is issued only to a user whose status is ACTIVE and
\* whose tenant is active: here on the OAuth callback, which issues it to
\* the user findOrCreateUser returns, for a user that existed already (no
\* status changes in these runs, so the user is as the callback met it).
C38_TokensOnlyForActive ==
    (rLast.op = "oauth" /\ rLast.res = "ok" /\ rLast.linked)
        => /\ rLast.active0
           /\ \A u \in users : u.email = invs[rLast.inv].email => u.status = "ACTIVE"

\* C39: a user who registered through OAuth completes the OAuth callback
\* again and receives a token pair, with no pending invitation needed: a
\* callback for an email that has a user, every user being one OAuth
\* registered, succeeds although no acceptable invitation came with it
\* (no other request being in flight).
C39_OAuthLoginAgain ==
    (/\ rLast.op = "oauth" /\ rLast.existing0 /\ ~rLast.invOk0
     /\ users # {} /\ \A u \in users : u.oauth /\ u.status = "ACTIVE"
     /\ \A p \in Procs : rpc[p] = "idle")
        => rLast.res = "ok"

\* C40: whenever every user-creating or user-deleting request has completed,
\* the tenant's stored current_users equals the number of its user records,
\* also after a quota increment or a tenant save that failed.
C40_CounterMatchesUsers ==
    (\A p \in Procs : rpc[p] = "idle") => tenantRow.cur = Cardinality(users)

====
